---- MODULE Spec2Model ----
(***************************************************************************)
(* Transight: the location resolver of dataAnalysis/geocode.py and the     *)
(* prediction-time feature reconstruction of machineLearning/predictor.py. *)
(*                                                                         *)
(* A Python str is a sequence of one-character strings, so that lower(),   *)
(* strip(), re.sub(), split() and the `in` substring test are computed     *)
(* character by character, as the interpreter computes them.               *)
(*                                                                         *)
(* Specifications: GeoSpec and EdgeSpec (geocode_with_stops on two         *)
(* registries), ParSpec (the rows resolved by parallel workers), NormSpec  *)
(* (clean_location_string applied twice), PredSpec (training run and       *)
(* predictor), ArtifactSpec (the predictor on a given model file),         *)
(* ServiceSpec (the calls a loaded predictor answers) and ApiSpec (the     *)
(* server of machineLearning/api.py).                                      *)
(***************************************************************************)
EXTENDS Integers, Sequences, FiniteSets, TLC

(***************************************************************************)
(* Bounds of the model                                                     *)
(***************************************************************************)
\* words in a text given to the normalizer harness
MaxPieces == 3
\* stops in stops_df
MaxStops == 2
\* rows in df
MaxRows == 2

(***************************************************************************)
(* Characters                                                              *)
(***************************************************************************)
UpperSeq == <<"A","B","C","D","E","F","G","H","I","J","K","L","M",
              "N","O","P","Q","R","S","T","U","V","W","X","Y","Z">>
LowerSeq == <<"a","b","c","d","e","f","g","h","i","j","k","l","m",
              "n","o","p","q","r","s","t","u","v","w","x","y","z">>
DigitSeq == <<"0","1","2","3","4","5","6","7","8","9">>

\* the characters \w matches, in code-point order
OrderedWordChars == DigitSeq \o UpperSeq \o <<"_">> \o LowerSeq

Range(f) == {f[i] : i \in DOMAIN f}

UpperChars == Range(UpperSeq)

WordChars == Range(LowerSeq) \cup UpperChars \cup Range(DigitSeq) \cup {"_"}

\* \w of Python's re on str
IsWord(c) == c \in WordChars

\* the blanks of \s, str.strip() and str.split()
Blank == {" ", "\t", "\n"}

\* \s of Python's re
IsSpace(c) == c \in Blank

\* str.lower() on one character
LowerChar(c) ==
  IF c \in UpperChars
    THEN LowerSeq[CHOOSE i \in 1..26 : UpperSeq[i] = c]
    ELSE c

str_lower(s) == [i \in 1..Len(s) |-> LowerChar(s[i])]

RECURSIVE lstrip(_, _)
lstrip(s, chars) ==
  IF s # <<>> /\ Head(s) \in chars THEN lstrip(Tail(s), chars) ELSE s

RECURSIVE rstrip(_, _)
rstrip(s, chars) ==
  IF s # <<>> /\ s[Len(s)] \in chars THEN rstrip(SubSeq(s, 1, Len(s) - 1), chars) ELSE s

\* str.strip() and str.strip(chars)
str_strip(s, chars) == rstrip(lstrip(s, chars), chars)

(***************************************************************************)
(* Regular expressions of clean_location_string                            *)
(***************************************************************************)
\* pat occurs in s at position i
MatchAt(s, i, pat) ==
  /\ i + Len(pat) - 1 <= Len(s)
  /\ \A k \in 1..Len(pat) : s[i + k - 1] = pat[k]

\* \b between s[i-1] and s[i] (i = 1 is the start, i = Len(s)+1 the end)
WordBoundary(s, i) ==
  LET before == i > 1 /\ IsWord(s[i - 1])
      after  == i <= Len(s) /\ IsWord(s[i])
  IN  before # after

\* length of the match of \b pat \.? \b at i (dot TRUE), or \b pat \b (dot FALSE);
\* 0 when there is none.  \.? is greedy and gives the dot back when the
\* boundary after it fails.
WordMatchLen(s, i, pat, dot) ==
  LET n == Len(pat) IN
  IF MatchAt(s, i, pat) /\ WordBoundary(s, i)
    THEN IF dot /\ i + n <= Len(s) /\ s[i + n] = "." /\ WordBoundary(s, i + n + 1)
           THEN n + 1
           ELSE IF WordBoundary(s, i + n) THEN n ELSE 0
    ELSE 0

\* re.sub of the word pattern: leftmost matches, left to right, not overlapping
RECURSIVE SubWordFrom(_, _, _, _, _)
SubWordFrom(s, i, pat, dot, repl) ==
  IF i > Len(s) THEN <<>>
  ELSE LET n == WordMatchLen(s, i, pat, dot) IN
       IF n > 0 THEN repl \o SubWordFrom(s, i + n, pat, dot, repl)
                ELSE <<s[i]>> \o SubWordFrom(s, i + 1, pat, dot, repl)

SubWord(s, pat, dot, repl) == SubWordFrom(s, 1, pat, dot, repl)

\* first position >= i that holds no blank (Len(s)+1 when there is none)
RECURSIVE SkipBlank(_, _)
SkipBlank(s, i) ==
  IF i <= Len(s) /\ IsSpace(s[i]) THEN SkipBlank(s, i + 1) ELSE i

\* the words the patterns and the keys are made of
W ==
  [at |->
      <<"a","t">>,
   and |->
      <<"a","n","d">>,
   amp |->
      <<"&">>,
   statio |->
      <<"s","t","a","t","i","o">>,
   sta |->
      <<"s","t","a">>,
   stn |->
      <<"s","t","n">>,
   station |->
      <<"s","t","a","t","i","o","n">>,
   ave |->
      <<"a","v","e">>,
   rd |->
      <<"r","d">>,
   blvd |->
      <<"b","l","v","d">>,
   st |->
      <<"s","t">>,
   dr |->
      <<"d","r">>,
   the |->
      <<"t","h","e">>,
   at_spaced |->
      <<" ","a","t"," ">>,
   bathurst |->
      <<"b","a","t","h","u","r","s","t">>,
   wilson |->
      <<"w","i","l","s","o","n">>]

\* the separator pattern with '&' forgotten: \s+(at|and)\s+
SeparatorMatchLenWithoutAmp(s, i) ==
  IF i <= Len(s) /\ IsSpace(s[i])
    THEN LET j == SkipBlank(s, i)
             m == IF MatchAt(s, j, W.at) /\ j + 2 <= Len(s) /\ IsSpace(s[j + 2]) THEN 2
                  ELSE IF MatchAt(s, j, W.and) /\ j + 3 <= Len(s) /\ IsSpace(s[j + 3]) THEN 3
                  ELSE 0
         IN  IF m > 0 THEN SkipBlank(s, j + m) - i ELSE 0
    ELSE 0

\* length of the match of \s+(at|and|&)\s+ at i, 0 when there is none
SeparatorMatchLen(s, i) ==
  IF i <= Len(s) /\ IsSpace(s[i])
    THEN LET j == SkipBlank(s, i)
             m == IF MatchAt(s, j, W.at) /\ j + 2 <= Len(s) /\ IsSpace(s[j + 2]) THEN 2
                  ELSE IF MatchAt(s, j, W.and) /\ j + 3 <= Len(s) /\ IsSpace(s[j + 3]) THEN 3
                  ELSE IF MatchAt(s, j, W.amp) /\ j + 1 <= Len(s) /\ IsSpace(s[j + 1]) THEN 1
                  ELSE 0
         IN  IF m > 0 THEN SkipBlank(s, j + m) - i ELSE 0
    ELSE 0

RECURSIVE SubSeparatorFrom(_, _)
SubSeparatorFrom(s, i) ==
  IF i > Len(s) THEN <<>>
  ELSE LET n == SeparatorMatchLen(s, i) IN
       IF n > 0 THEN <<" ">> \o W.at \o <<" ">> \o SubSeparatorFrom(s, i + n)
                ELSE <<s[i]>> \o SubSeparatorFrom(s, i + 1)

\* re.sub(r'\s+(at|and|&)\s+', ' at ', text)
SubSeparator(s) == SubSeparatorFrom(s, 1)

\* re.sub(r'[^\w\s]', ' ', text)
SubPunctuation(s) ==
  [i \in 1..Len(s) |-> IF IsWord(s[i]) \/ IsSpace(s[i]) THEN s[i] ELSE " "]

\* re.sub(r'\s+', ' ', text)
RECURSIVE CollapseFrom(_, _)
CollapseFrom(s, i) ==
  IF i > Len(s) THEN <<>>
  ELSE IF IsSpace(s[i]) THEN <<" ">> \o CollapseFrom(s, SkipBlank(s, i))
       ELSE <<s[i]>> \o CollapseFrom(s, i + 1)

CollapseSpaces(s) == CollapseFrom(s, 1)


\* the value None and any other non-string input of clean_location_string
NotAString == <<"<not a str>">>

\* lines 24-26 with 'stn' forgotten
StationAbbreviationsWithoutStn(t) ==
  SubWord(SubWord(t, W.statio, FALSE, W.station), W.sta, FALSE, W.station)

\* lines 24-26: statio, sta, stn -> station, in this order
StationAbbreviations(t) ==
  SubWord(SubWord(SubWord(t, W.statio, FALSE, W.station),
                  W.sta, FALSE, W.station),
          W.stn, FALSE, W.station)

\* lines 29-33: ave. rd. blvd. st. dr. lose their full stop, in this order
StreetAbbreviations(t) ==
  LET t6 == SubWord(t, W.ave, TRUE, W.ave)
      t7 == SubWord(t6, W.rd, TRUE, W.rd)
      t8 == SubWord(t7, W.blvd, TRUE, W.blvd)
      t9 == SubWord(t8, W.st, TRUE, W.st)
  IN  SubWord(t9, W.dr, TRUE, W.dr)

clean_location_string(text) ==
  IF text = NotAString THEN <<>>
  ELSE
  LET t1  == str_strip(str_lower(text), Blank)
      t2  == str_strip(str_strip(t1, {"\""}), Blank)
      t5  == StationAbbreviations(t2)
      t10 == StreetAbbreviations(t5)
      t11 == SubSeparator(t10)
      t12 == SubPunctuation(t11)
  IN  str_strip(CollapseSpaces(t12), Blank)

(***************************************************************************)
(* str and list helpers used by geocode_with_stops                         *)
(***************************************************************************)
\* str.split(): the words between runs of blanks
RECURSIVE SplitFrom(_, _, _)
SplitFrom(s, i, cur) ==
  IF i > Len(s) THEN (IF cur = <<>> THEN <<>> ELSE <<cur>>)
  ELSE IF IsSpace(s[i])
         THEN (IF cur = <<>> THEN <<>> ELSE <<cur>>) \o SplitFrom(s, i + 1, <<>>)
         ELSE SplitFrom(s, i + 1, Append(cur, s[i]))

str_split(s) == SplitFrom(s, 1, <<>>)

\* str.split(sep): cut at each occurrence of sep, leftmost first, not overlapping
RECURSIVE SplitSepFrom(_, _, _, _)
SplitSepFrom(s, i, sep, cur) ==
  IF i > Len(s) THEN <<cur>>
  ELSE IF MatchAt(s, i, sep)
         THEN <<cur>> \o SplitSepFrom(s, i + Len(sep), sep, <<>>)
         ELSE SplitSepFrom(s, i + 1, sep, Append(cur, s[i]))

str_split_sep(s, sep) == SplitSepFrom(s, 1, sep, <<>>)

\* ' '.join(words)
RECURSIVE str_join(_)
str_join(words) ==
  IF words = <<>> THEN <<>>
  ELSE IF Len(words) = 1 THEN words[1]
  ELSE words[1] \o <<" ">> \o str_join(Tail(words))

\* sub in s, on str
Contains(s, sub) == \E i \in 1..(Len(s) - Len(sub) + 1) : MatchAt(s, i, sub)

CharRank(c) == CHOOSE i \in 1..Len(OrderedWordChars) : OrderedWordChars[i] = c

\* a < b on str (code-point order; cleaned text holds only blanks and \w)
RECURSIVE StrLess(_, _)
StrLess(a, b) ==
  IF b = <<>> THEN FALSE
  ELSE IF a = <<>> THEN TRUE
  ELSE IF a[1] = b[1] THEN StrLess(Tail(a), Tail(b))
  ELSE IF a[1] = " " THEN TRUE
  ELSE IF b[1] = " " THEN FALSE
  ELSE CharRank(a[1]) < CharRank(b[1])

\* the pair with sorted() forgotten
UnsortedPair(a, b) == <<a, b>>

\* tuple(sorted([a, b]))
SortedPair(a, b) == IF StrLess(b, a) THEN <<b, a>> ELSE <<a, b>>


(***************************************************************************)
(* Coordinates: a stop's latitude and longitude are integers (1e-4         *)
(* degree); a mean is the exact fraction <<numerator, denominator>> in     *)
(* lowest terms, so that two means are equal iff the fractions are.        *)
(***************************************************************************)
Abs(n) == IF n < 0 THEN -n ELSE n

RECURSIVE GCD(_, _)
GCD(a, b) == IF b = 0 THEN a ELSE GCD(b, a % b)

Frac(n, d) == LET g == GCD(Abs(n), d) IN <<n \div g, d \div g>>

\* a single stop's coordinate as a fraction
Exact1(n) == <<n, 1>>

RECURSIVE SumOver(_, _)
SumOver(S, field) ==
  IF S = {} THEN 0
  ELSE LET x == CHOOSE y \in S : TRUE
       IN  x.stop[field] + SumOver(S \ {x}, field)

\* sum(c[k] for c in coords_list) / len(coords_list), and DataFrame.mean();
\* S holds one element per appended coordinate pair
Mean(S, field) == Frac(SumOver(S, field), Cardinality(S))

(***************************************************************************)
(* geocode_with_stops: the three indexes                                   *)
(***************************************************************************)
\* None, and the (None, None) that get_coords returns for a failed row
None == <<>>

\* the index with .first() in place of .mean(): one stop of each group, not the mean
BuildExactFirst(stops, cleaned) ==
  [k \in {cleaned[r] : r \in stops} |->
     LET r1 == CHOOSE r \in stops :
                 /\ cleaned[r] = k
                 /\ \A q \in stops : cleaned[q] = k => r.stop_lat <= q.stop_lat
     IN  [stop_lat |-> Exact1(r1.stop_lat), stop_lon |-> Exact1(r1.stop_lon)]]

\* the index filled by plain assignment, so that one stop of each group replaces
\* the others
BuildExactLast(stops, cleaned) ==
  [k \in {cleaned[r] : r \in stops} |->
     LET r1 == CHOOSE r \in stops :
                 /\ cleaned[r] = k
                 /\ \A q \in stops : cleaned[q] = k => r.stop_lat >= q.stop_lat
     IN  [stop_lat |-> Exact1(r1.stop_lat), stop_lon |-> Exact1(r1.stop_lon)]]

\* stops_df.groupby('cleaned_name')[['stop_lat', 'stop_lon']].mean().to_dict('index')
BuildExact(stops, cleaned) ==
  [k \in {cleaned[r] : r \in stops} |->
     LET group == {[stop |-> r] : r \in {q \in stops : cleaned[q] = k}}
     IN  [stop_lat |-> Mean(group, "stop_lat"), stop_lon |-> Mean(group, "stop_lon")]]

Max(a, b) == IF a >= b THEN a ELSE b

\* the key built for the word 'station' at position i of parts (positions from 1):
\* the words range(max(0, i-3), i+1) of the source, joined
StationKey(parts, i) == str_join(SubSeq(parts, Max(1, i - 3), i))

\* one element per station_dict[station_key].append(...) of a stop: the stop and
\* the position of the word 'station' (i > 0 in the source: not the first word)
StopStationAppends(r, name) ==
  IF Contains(name, W.station)
    THEN LET parts == str_split(name) IN
         {[stop |-> r, at |-> i, key |-> StationKey(parts, i)] :
            i \in {j \in 2..Len(parts) : parts[j] = W.station}}
    ELSE {}

StationAppends(stops, cleaned) ==
  UNION {StopStationAppends(r, cleaned[r]) : r \in stops}

\* the averages replaced by the coordinates of one contributing stop per key
AverageByKey_OneStop(appends) ==
  [k \in {a.key : a \in appends} |->
     LET one == CHOOSE a \in appends : a.key = k
     IN  <<Exact1(one.stop.stop_lat), Exact1(one.stop.stop_lon)>>]

AverageByKey(appends) ==
  [k \in {a.key : a \in appends} |->
     LET coords_list == {a \in appends : a.key = k}
     IN  <<Mean(coords_list, "stop_lat"), Mean(coords_list, "stop_lon")>>]

BuildStation(stops, cleaned) == AverageByKey(StationAppends(stops, cleaned))

\* the key of an intersection name, None when the name yields none
IntersectionKey(name) ==
  IF Contains(name, W.at_spaced)
    THEN LET parts == str_split_sep(name, W.at_spaced) IN
         IF Len(parts) = 2
           THEN LET street1_words == str_split(parts[1])
                    street2_words == str_split(parts[2])
                IN  IF street1_words # <<>> /\ street2_words # <<>>
                      THEN SortedPair(street1_words[1], street2_words[1])
                      ELSE None
           ELSE None
    ELSE None

IntersectionAppends(stops, cleaned) ==
  {[stop |-> r, key |-> IntersectionKey(cleaned[r])] :
     r \in {q \in stops : IntersectionKey(cleaned[q]) # None}}

BuildIntersection(stops, cleaned) == AverageByKey(IntersectionAppends(stops, cleaned))

(***************************************************************************)
(* get_coords: the strategy chain                                          *)
(***************************************************************************)
Min(S) == CHOOSE x \in S : \A y \in S : x <= y

\* position (from 1) of the first word 'station', 0 when there is none
FirstStation(words) ==
  IF \E i \in 1..Len(words) : words[i] = W.station
    THEN Min({i \in 1..Len(words) : words[i] = W.station})
    ELSE 0

\* Strategy 2 with the windows before 'station' tried narrowest first
StationMatch_NarrowestFirst(cleaned_loc, station) ==
  IF Contains(cleaned_loc, W.station)
    THEN IF cleaned_loc \in DOMAIN station
           THEN station[cleaned_loc]
           ELSE LET words == str_split(cleaned_loc)
                    station_idx == FirstStation(words)
                    hits == {start \in Max(1, station_idx - 3)..(station_idx - 1) :
                               str_join(SubSeq(words, start, station_idx)) \in DOMAIN station}
                IN  IF station_idx > 0 /\ hits # {}
                      THEN station[str_join(SubSeq(words,
                                     CHOOSE s \in hits : \A t \in hits : s >= t,
                                     station_idx))]
                      ELSE None
    ELSE None

\* Strategy 2: the coordinates, None when the strategy does not match
StationMatch(cleaned_loc, station) ==
  IF Contains(cleaned_loc, W.station)
    THEN IF cleaned_loc \in DOMAIN station
           THEN station[cleaned_loc]
           ELSE LET words == str_split(cleaned_loc)
                    station_idx == FirstStation(words)
                    \* for start in range(max(0, station_idx - 3), station_idx)
                    hits == {start \in Max(1, station_idx - 3)..(station_idx - 1) :
                               str_join(SubSeq(words, start, station_idx)) \in DOMAIN station}
                IN  IF station_idx > 0 /\ hits # {}
                      THEN station[str_join(SubSeq(words, Min(hits), station_idx))]
                      ELSE None
    ELSE None

\* Strategy 3: the coordinates, None when the strategy does not match
IntersectionMatch(cleaned_loc, intersection) ==
  LET key == IntersectionKey(cleaned_loc) IN
  IF key # None /\ key \in DOMAIN intersection THEN intersection[key] ELSE None

STOP_WORDS == {W.at, W.and, W.the, W.station, W.st, W.ave, W.rd}

\* the keys of exact_dict in iteration order: groupby sorts the group keys
RECURSIVE SortedKeys(_)
SortedKeys(S) ==
  IF S = {} THEN <<>>
  ELSE LET m == CHOOSE x \in S : \A y \in S : y = x \/ StrLess(x, y)
       IN  <<m>> \o SortedKeys(S \ {m})

\* if len(loc_words) >= 2
MinLocWords == 2

\* if len(common_words) >= 2
MinCommonWords == 2

\* the loop with `score >= best_score`: a later key with the same score replaces
\* the earlier one
RECURSIVE PartialScanLastSeen(_, _, _, _, _)
PartialScanLastSeen(keys, exact, loc_words, min_common, best) ==
  IF keys = <<>> THEN best
  ELSE LET stop_name == Head(keys)
           stop_words == Range(str_split(stop_name))
           common_words == loc_words \cap (stop_words \ STOP_WORDS)
           num == Cardinality(common_words)
           den == Cardinality(loc_words \cup stop_words)
           better == num >= min_common /\ num * best.den >= best.num * den
       IN  PartialScanLastSeen(Tail(keys), exact, loc_words, min_common,
                               IF better THEN [num |-> num, den |-> den, match |-> exact[stop_name]]
                                         ELSE best)

\* the loop over exact_dict.items(): best = [num, den, match] with best_score = num/den
RECURSIVE PartialScan(_, _, _, _, _)
PartialScan(keys, exact, loc_words, min_common, best) ==
  IF keys = <<>> THEN best
  ELSE LET stop_name == Head(keys)
           stop_words == Range(str_split(stop_name))
           common_words == loc_words \cap (stop_words \ STOP_WORDS)
           num == Cardinality(common_words)
           den == Cardinality(loc_words \cup stop_words)
           better == num >= min_common /\ num * best.den > best.num * den
       IN  PartialScan(Tail(keys), exact, loc_words, min_common,
                       IF better THEN [num |-> num, den |-> den, match |-> exact[stop_name]]
                                 ELSE best)

\* Strategy 4 with both minimums lowered to 1: any shared word qualifies
PartialMatchAnyOverlap(cleaned_loc, exact) ==
  LET loc_words == Range(str_split(cleaned_loc)) IN
  IF Cardinality(loc_words) >= 1
    THEN LET best == PartialScan(SortedKeys(DOMAIN exact), exact, loc_words,
                                 1, [num |-> 0, den |-> 1, match |-> None])
         IN  IF best.match # None /\ 2 * best.num >= best.den
               THEN <<best.match.stop_lat, best.match.stop_lon>>
               ELSE None
    ELSE None

\* Strategy 4: the coordinates, None when the strategy does not match
PartialMatch(cleaned_loc, exact) ==
  LET loc_words == Range(str_split(cleaned_loc)) IN
  IF Cardinality(loc_words) >= MinLocWords
    THEN LET best == PartialScan(SortedKeys(DOMAIN exact), exact, loc_words,
                                 MinCommonWords, [num |-> 0, den |-> 1, match |-> None])
         IN  \* best_match and best_score >= 0.5
             IF best.match # None /\ 2 * best.num >= best.den
               THEN <<best.match.stop_lat, best.match.stop_lon>>
               ELSE None
    ELSE None

\* the chain with the station strategy tried before the exact lookup
get_coords_StationFirst(cleaned_loc, exact, station, intersection) ==
  IF cleaned_loc = <<>>
    THEN [strategy |-> "failed", coords |-> None]
  ELSE IF StationMatch(cleaned_loc, station) # None
    THEN [strategy |-> "station", coords |-> StationMatch(cleaned_loc, station)]
  ELSE IF cleaned_loc \in DOMAIN exact
    THEN [strategy |-> "exact",
          coords |-> <<exact[cleaned_loc].stop_lat, exact[cleaned_loc].stop_lon>>]
  ELSE IF IntersectionMatch(cleaned_loc, intersection) # None
    THEN [strategy |-> "intersection",
          coords |-> IntersectionMatch(cleaned_loc, intersection)]
  ELSE IF PartialMatch(cleaned_loc, exact) # None
    THEN [strategy |-> "partial", coords |-> PartialMatch(cleaned_loc, exact)]
  ELSE [strategy |-> "failed", coords |-> None]

\* the chain without the check of an empty query at its head
get_coords_NoEmptyCheck(cleaned_loc, exact, station, intersection) ==
  IF cleaned_loc \in DOMAIN exact
    THEN [strategy |-> "exact",
          coords |-> <<exact[cleaned_loc].stop_lat, exact[cleaned_loc].stop_lon>>]
  ELSE IF StationMatch(cleaned_loc, station) # None
    THEN [strategy |-> "station", coords |-> StationMatch(cleaned_loc, station)]
  ELSE IF IntersectionMatch(cleaned_loc, intersection) # None
    THEN [strategy |-> "intersection",
          coords |-> IntersectionMatch(cleaned_loc, intersection)]
  ELSE IF PartialMatch(cleaned_loc, exact) # None
    THEN [strategy |-> "partial", coords |-> PartialMatch(cleaned_loc, exact)]
  ELSE [strategy |-> "failed", coords |-> None]

\* the chain with a last resort: a row nothing matched is counted as failed but
\* returned with the coordinates of the best stop that shares a word with it
get_coords_FailedWithNearest(cleaned_loc, exact, station, intersection) ==
  IF cleaned_loc = <<>>
    THEN [strategy |-> "failed", coords |-> None]
  ELSE IF cleaned_loc \in DOMAIN exact
    THEN [strategy |-> "exact",
          coords |-> <<exact[cleaned_loc].stop_lat, exact[cleaned_loc].stop_lon>>]
  ELSE IF StationMatch(cleaned_loc, station) # None
    THEN [strategy |-> "station", coords |-> StationMatch(cleaned_loc, station)]
  ELSE IF IntersectionMatch(cleaned_loc, intersection) # None
    THEN [strategy |-> "intersection",
          coords |-> IntersectionMatch(cleaned_loc, intersection)]
  ELSE IF PartialMatch(cleaned_loc, exact) # None
    THEN [strategy |-> "partial", coords |-> PartialMatch(cleaned_loc, exact)]
  ELSE [strategy |-> "failed", coords |-> PartialMatchAnyOverlap(cleaned_loc, exact)]

\* what one call of get_coords returns, with the key of stats it increments
get_coords(cleaned_loc, exact, station, intersection) ==
  IF cleaned_loc = <<>>
    THEN [strategy |-> "failed", coords |-> None]
  ELSE IF cleaned_loc \in DOMAIN exact
    THEN [strategy |-> "exact",
          coords |-> <<exact[cleaned_loc].stop_lat, exact[cleaned_loc].stop_lon>>]
  ELSE IF StationMatch(cleaned_loc, station) # None
    THEN [strategy |-> "station", coords |-> StationMatch(cleaned_loc, station)]
  ELSE IF IntersectionMatch(cleaned_loc, intersection) # None
    THEN [strategy |-> "intersection",
          coords |-> IntersectionMatch(cleaned_loc, intersection)]
  ELSE IF PartialMatch(cleaned_loc, exact) # None
    THEN [strategy |-> "partial", coords |-> PartialMatch(cleaned_loc, exact)]
  ELSE [strategy |-> "failed", coords |-> None]

(***************************************************************************)
(* The stop registry and the incident rows the model draws from            *)
(***************************************************************************)
\* rows of stops.txt
Stop ==
   \* "Kennedy Station"
  [Kennedy |->
      [stop_name |-> <<"K","e","n","n","e","d","y"," ","S","t","a","t","i","o","n">>, stop_lat |-> 437325, stop_lon |-> -792631],
   \* "Main St Station"
   MainSt |->
      [stop_name |-> <<"M","a","i","n"," ","S","t"," ","S","t","a","t","i","o","n">>, stop_lat |-> 436890, stop_lon |-> -793010],
   \* "Main St. Station"
   MainStDot |->
      [stop_name |-> <<"M","a","i","n"," ","S","t","."," ","S","t","a","t","i","o","n">>, stop_lat |-> 436900, stop_lon |-> -793020],
   \* "Bathurst St at Wilson Ave"
   BathurstWilson |->
      [stop_name |-> <<"B","a","t","h","u","r","s","t"," ","S","t"," ","a","t"," ","W","i","l","s","o","n"," ","A","v","e">>, stop_lat |-> 437340, stop_lon |-> -794350],
   \* "Wilson Ave at Bathurst St"
   WilsonBathurst |->
      [stop_name |-> <<"W","i","l","s","o","n"," ","A","v","e"," ","a","t"," ","B","a","t","h","u","r","s","t"," ","S","t">>, stop_lat |-> 437350, stop_lon |-> -794360],
   \* "Wilson at Bathurst"
   WilsonAtBathurst |->
      [stop_name |-> <<"W","i","l","s","o","n"," ","a","t"," ","B","a","t","h","u","r","s","t">>, stop_lat |-> 437346, stop_lon |-> -794352],
   BathurstAtWilson |->
      [stop_name |-> <<"B","a","t","h","u","r","s","t"," ","a","t"," ","W","i","l","s","o","n">>, stop_lat |-> 437344, stop_lon |-> -794354],
   \* a row of stops.txt without a name: read_csv gives NaN, which is no str
   NoName |->
      [stop_name |-> NotAString, stop_lat |-> 436532, stop_lon |-> -793832],
   \* "West Side of King Station"
   WestSideOfKing |->
      [stop_name |-> <<"W","e","s","t"," ","S","i","d","e"," ","o","f"," ","K","i","n","g"," ","S","t","a","t","i","o","n">>, stop_lat |-> 436490, stop_lon |-> -793780],
   \* "King Station"
   KingStation |->
      [stop_name |-> <<"K","i","n","g"," ","S","t","a","t","i","o","n">>, stop_lat |-> 436491, stop_lon |-> -793779],
   \* "Old King Station"
   OldKing |->
      [stop_name |-> <<"O","l","d"," ","K","i","n","g"," ","S","t","a","t","i","o","n">>, stop_lat |-> 436495, stop_lon |-> -793775],
   \* "King St at Bay St"
   KingBay |->
      [stop_name |-> <<"K","i","n","g"," ","S","t"," ","a","t"," ","B","a","y"," ","S","t">>, stop_lat |-> 436480, stop_lon |-> -793800],
   \* "King St at Bay St at York St"
   KingBayYork |->
      [stop_name |-> <<"K","i","n","g"," ","S","t"," ","a","t"," ","B","a","y"," ","S","t"," ","a","t"," ","Y","o","r","k"," ","S","t">>, stop_lat |-> 436470, stop_lon |-> -793820]]

StopPool ==
  {Stop.Kennedy,
   Stop.MainSt,
   Stop.MainStDot,
   Stop.BathurstWilson,
   Stop.WilsonBathurst,
   Stop.WilsonAtBathurst,
   Stop.BathurstAtWilson,
   Stop.NoName}

\* values of df['location']
Loc ==
   \* "main st station"
  [MainStStation |->
      <<"m","a","i","n"," ","s","t"," ","s","t","a","t","i","o","n">>,
   \* "KENNEDY STN"
   KennedyStn |->
      <<"K","E","N","N","E","D","Y"," ","S","T","N">>,
   \* "bathurst and wilson"
   BathurstAndWilson |->
      <<"b","a","t","h","u","r","s","t"," ","a","n","d"," ","w","i","l","s","o","n">>,
   \* "Wilson and Bathurst"
   WilsonAndBathurst |->
      <<"W","i","l","s","o","n"," ","a","n","d"," ","B","a","t","h","u","r","s","t">>,
   \* "bathurst & wilson"
   BathurstAmpWilson |->
      <<"b","a","t","h","u","r","s","t"," ","&"," ","w","i","l","s","o","n">>,
   \* "kennedy"
   Kennedy |->
      <<"k","e","n","n","e","d","y">>,
   \* "wilson wilson"
   WilsonWilson |->
      <<"w","i","l","s","o","n"," ","w","i","l","s","o","n">>,
   \* "wilson bathurst"
   WilsonBathurst |->
      <<"w","i","l","s","o","n"," ","b","a","t","h","u","r","s","t">>,
   \* "Kennedy Station Loop"
   KennedyStationLoop |->
      <<"K","e","n","n","e","d","y"," ","S","t","a","t","i","o","n"," ","L","o","o","p">>,
   \* "Kennedy Sta"
   KennedySta |->
      <<"K","e","n","n","e","d","y"," ","S","t","a">>,
   \* "kennedy statio"
   KennedyStatio |->
      <<"k","e","n","n","e","d","y"," ","s","t","a","t","i","o">>,
   \* "king station"
   KingStation |->
      <<"k","i","n","g"," ","s","t","a","t","i","o","n">>,
   \* "near old king station"
   NearOldKing |->
      <<"n","e","a","r"," ","o","l","d"," ","k","i","n","g"," ","s","t","a","t","i","o","n">>,
   \* "king at bay at york"
   KingBayYork |->
      <<"k","i","n","g"," ","a","t"," ","b","a","y"," ","a","t"," ","y","o","r","k">>,
   \* ""
   Empty |->
      <<>>,
   \* "   "
   Spaces |->
      <<" "," "," ">>,
   \* "?!"
   Punctuation |->
      <<"?","!">>,
   \* "King Station at Bay"
   KingStationAtBay |->
      <<"K","i","n","g"," ","S","t","a","t","i","o","n"," ","a","t"," ","B","a","y">>]


\* the last one is a row without a location (NaN)
LocationPool ==
  {Loc.KennedySta,
   Loc.KennedyStatio,
   Loc.MainStStation,
   Loc.KennedyStn,
   Loc.BathurstAndWilson,
   Loc.WilsonAndBathurst,
   Loc.BathurstAmpWilson,
   Loc.Kennedy,
   Loc.WilsonWilson,
   Loc.WilsonBathurst,
   Loc.KennedyStationLoop,
   NotAString}

\* a second registry: station names of several words, names with 'at' twice
EdgeStopPool ==
  {Stop.WestSideOfKing,
   Stop.KingStation,
   Stop.OldKing,
   Stop.KingBay,
   Stop.KingBayYork,
   Stop.NoName}

\* locations for it, with the texts that carry no word at all
EdgeLocationPool ==
  {Loc.KingStation,
   Loc.NearOldKing,
   Loc.KingBayYork,
   Loc.KingStationAtBay,
   Loc.Empty,
   Loc.Spaces,
   Loc.Punctuation,
   NotAString}

(***************************************************************************)
(* State                                                                   *)
(***************************************************************************)
VARIABLES
  \* geocode_with_stops
  pc,                     \* where geocode_with_stops is: "start", "match", "done"
  stops_df,               \* the rows of stops.txt
  df,                     \* df['location'], one entry per incident row
  cleaned_name,           \* stops_df['cleaned_name']
  cleaned_location,       \* df['cleaned_location']
  exact_dict,
  station_avg_dict,
  intersection_avg_dict,
  stats,                  \* the five counters of the match-rate summary
  resolved,               \* per row get_coords was applied to: what it returned and
                          \* the counter it incremented
  worker,                 \* per parallel worker: the call of get_coords it is in
  \* clean_location_string applied to its own output
  n_pc,                   \* "raw", "once", "twice"
  n_text,                 \* the raw text
  n_once,                 \* clean_location_string(n_text)
  n_twice,                \* clean_location_string(n_once)
  \* feature_engineering.main and DelayPredictor
  p_pc,                   \* "start", "trained", "ready", "served", "load_failed"
  data_file,              \* geocoded_delays.parquet (or .csv): exists, rows
  training_df,            \* the df the training run loaded
  model_file,             \* ttc_delay_model.joblib: exists, feature_columns
  predictor,              \* the attributes of the DelayPredictor object
  request,                \* the arguments of the last call
  result                  \* what the last call raised or returned

geo_vars == <<pc, stops_df, df, cleaned_name, cleaned_location, exact_dict,
              station_avg_dict, intersection_avg_dict, stats, resolved, worker>>

norm_vars == <<n_pc, n_text, n_once, n_twice>>

pred_vars == <<p_pc, data_file, training_df, model_file, predictor, request, result>>

vars == <<geo_vars, norm_vars, pred_vars>>

\* the normalizer harness is not running
NormIdle == n_pc = "idle" /\ n_text = <<>> /\ n_once = <<>> /\ n_twice = <<>>

\* no training run and no predictor
PredIdle ==
  /\ p_pc = "idle"
  /\ data_file = <<>>
  /\ training_df = <<>>
  /\ model_file = <<>>
  /\ predictor = <<>>
  /\ request = <<>>
  /\ result = <<>>

\* geocode_with_stops is not running
GeoIdle ==
  /\ pc = "idle"
  /\ stops_df = {}
  /\ df = <<>>
  /\ cleaned_name = <<>>
  /\ cleaned_location = <<>>
  /\ exact_dict = <<>>
  /\ station_avg_dict = <<>>
  /\ intersection_avg_dict = <<>>
  /\ stats = <<>>
  /\ resolved = <<>>
  /\ worker = <<>>

Strategies == {"exact", "station", "intersection", "partial", "failed"}

GeoInit ==
  /\ pc = "start"
  /\ stops_df \in {S \in SUBSET StopPool : Cardinality(S) <= MaxStops}
  /\ df \in UNION {[1..n -> LocationPool] : n \in 1..MaxRows}
  /\ cleaned_name = <<>>
  /\ cleaned_location = <<>>
  /\ exact_dict = <<>>
  /\ station_avg_dict = <<>>
  /\ intersection_avg_dict = <<>>
  /\ stats = <<>>
  /\ resolved = <<>>
  /\ worker = <<>>
  /\ NormIdle
  /\ PredIdle

\* the same call on the second registry
EdgeInit ==
  /\ pc = "start"
  /\ stops_df \in {S \in SUBSET EdgeStopPool : Cardinality(S) <= MaxStops}
  /\ df \in UNION {[1..n -> EdgeLocationPool] : n \in 1..MaxRows}
  /\ cleaned_name = <<>>
  /\ cleaned_location = <<>>
  /\ exact_dict = <<>>
  /\ station_avg_dict = <<>>
  /\ intersection_avg_dict = <<>>
  /\ stats = <<>>
  /\ resolved = <<>>
  /\ worker = <<>>
  /\ NormIdle
  /\ PredIdle

\* lines 52-120: the cleaned columns, the three indexes, the zeroed counters
BuildIndexes ==
  /\ pc = "start"
  /\ LET cleaned == [r \in stops_df |-> clean_location_string(r.stop_name)] IN
       /\ cleaned_name' = cleaned
       /\ exact_dict' = BuildExact(stops_df, cleaned)
       /\ station_avg_dict' = BuildStation(stops_df, cleaned)
       /\ intersection_avg_dict' = BuildIntersection(stops_df, cleaned)
  /\ cleaned_location' = [i \in 1..Len(df) |-> clean_location_string(df[i])]
  /\ stats' = [k \in Strategies |-> 0]
  /\ pc' = "match"
  /\ UNCHANGED <<stops_df, df, resolved, worker, norm_vars, pred_vars>>

\* apply with a get_coords that leaves an empty query uncounted
ApplyGetCoords_EmptyUncounted ==
  /\ pc = "match"
  /\ Len(resolved) < Len(df)
  /\ LET r == get_coords(cleaned_location[Len(resolved) + 1], exact_dict,
                         station_avg_dict, intersection_avg_dict) IN
       /\ stats' = IF cleaned_location[Len(resolved) + 1] = <<>>
                     THEN stats
                     ELSE [stats EXCEPT ![r.strategy] = @ + 1]
       /\ resolved' = Append(resolved, r)
  /\ UNCHANGED <<pc, stops_df, df, cleaned_name, cleaned_location, exact_dict,
                 station_avg_dict, intersection_avg_dict, worker, norm_vars, pred_vars>>

\* apply with a get_coords that stores a Partial result in exact_dict under the query
ApplyGetCoords_CachesPartial ==
  /\ pc = "match"
  /\ Len(resolved) < Len(df)
  /\ LET c == cleaned_location[Len(resolved) + 1]
         r == get_coords(c, exact_dict, station_avg_dict, intersection_avg_dict)
     IN  /\ stats' = [stats EXCEPT ![r.strategy] = @ + 1]
         /\ resolved' = Append(resolved, r)
         /\ exact_dict' = IF r.strategy = "partial"
                            THEN (c :> [stop_lat |-> r.coords[1], stop_lon |-> r.coords[2]])
                                   @@ exact_dict
                            ELSE exact_dict
  /\ UNCHANGED <<pc, stops_df, df, cleaned_name, cleaned_location,
                 station_avg_dict, intersection_avg_dict, worker, norm_vars, pred_vars>>

\* lines 189-191: apply calls get_coords on the next row
ApplyGetCoords ==
  /\ pc = "match"
  /\ Len(resolved) < Len(df)
  /\ LET r == get_coords(cleaned_location[Len(resolved) + 1], exact_dict,
                         station_avg_dict, intersection_avg_dict) IN
       /\ stats' = [stats EXCEPT ![r.strategy] = @ + 1]
       /\ resolved' = Append(resolved, r)
  /\ UNCHANGED <<pc, stops_df, df, cleaned_name, cleaned_location, exact_dict,
                 station_avg_dict, intersection_avg_dict, worker, norm_vars, pred_vars>>

\* lines 193-198: the summary is printed and the cleaned column dropped
Report ==
  /\ pc = "match"
  /\ Len(resolved) = Len(df)
  /\ cleaned_location' = <<>>
  /\ pc' = "done"
  /\ UNCHANGED <<stops_df, df, cleaned_name, exact_dict, station_avg_dict,
                 intersection_avg_dict, stats, resolved, worker, norm_vars, pred_vars>>

GeoNext == BuildIndexes \/ ApplyGetCoords \/ Report

GeoSpec == GeoInit /\ [][GeoNext]_vars

EdgeSpec == EdgeInit /\ [][GeoNext]_vars

(***************************************************************************)
(* The rows of a batch resolved by parallel workers: each worker runs      *)
(* get_coords, the closure of lines 122-186, on a row no other worker has  *)
(* taken. The closure reads the three indexes and updates the dict stats   *)
(* of line 120 with stats[key] += 1, a read of the counter followed by a   *)
(* write of the value read plus one.                                       *)
(***************************************************************************)
NumWorkers == 2

Workers == 1..NumWorkers

ParStopPool == {Stop.Kennedy, Stop.BathurstWilson}

ParLocationPool == {Loc.KennedyStn, Loc.BathurstAndWilson, NotAString}

\* a worker that is in no call
Idle == [at |-> "idle"]

ParInit ==
  /\ pc = "start"
  /\ stops_df \in SUBSET ParStopPool
  /\ df \in UNION {[1..n -> ParLocationPool] : n \in 1..MaxRows}
  /\ cleaned_name = <<>>
  /\ cleaned_location = <<>>
  /\ exact_dict = <<>>
  /\ station_avg_dict = <<>>
  /\ intersection_avg_dict = <<>>
  /\ stats = <<>>
  /\ resolved = <<>>
  /\ worker = [w \in Workers |-> Idle]
  /\ NormIdle
  /\ PredIdle

\* the rows no worker has taken yet
Untaken ==
  (1..Len(df)) \ (DOMAIN resolved
                   \cup {worker[w].row : w \in {v \in Workers : worker[v].at # "idle"}})

\* a worker calls get_coords on a row: the strategy chain decides the outcome, and
\* the left side of stats[key] += 1 reads the counter
CallGetCoords(w) ==
  /\ pc = "match"
  /\ worker[w].at = "idle"
  /\ \E i \in Untaken :
       LET r == get_coords(cleaned_location[i], exact_dict,
                           station_avg_dict, intersection_avg_dict) IN
       worker' = [worker EXCEPT ![w] =
                    [at |-> "increment", row |-> i, returns |-> r,
                     read |-> stats[r.strategy]]]
  /\ UNCHANGED <<pc, stops_df, df, cleaned_name, cleaned_location, exact_dict,
                 station_avg_dict, intersection_avg_dict, stats, resolved,
                 norm_vars, pred_vars>>

\* the worker writes the counter and returns the row's result
ReturnCoords(w) ==
  /\ pc = "match"
  /\ worker[w].at = "increment"
  /\ stats' = [stats EXCEPT ![worker[w].returns.strategy] = worker[w].read + 1]
  /\ resolved' = (worker[w].row :> worker[w].returns) @@ resolved
  /\ worker' = [worker EXCEPT ![w] = Idle]
  /\ UNCHANGED <<pc, stops_df, df, cleaned_name, cleaned_location, exact_dict,
                 station_avg_dict, intersection_avg_dict, norm_vars, pred_vars>>

\* lines 193-198 once every row has its result
ParReport ==
  /\ pc = "match"
  /\ DOMAIN resolved = 1..Len(df)
  /\ cleaned_location' = <<>>
  /\ pc' = "done"
  /\ UNCHANGED <<stops_df, df, cleaned_name, exact_dict, station_avg_dict,
                 intersection_avg_dict, stats, resolved, worker, norm_vars, pred_vars>>

ParNext ==
  \/ BuildIndexes
  \/ \E w \in Workers : CallGetCoords(w)
  \/ \E w \in Workers : ReturnCoords(w)
  \/ ParReport

ParSpec == ParInit /\ [][ParNext]_vars

\* what the sequential apply of lines 189-191 gives row i
SequentialResult(i) ==
  get_coords(clean_location_string(df[i]), exact_dict, station_avg_dict,
             intersection_avg_dict)

\* C14: whatever the interleaving of the workers, every row has the result the
\* sequential apply gives it, and the summary's counters are the sequential counts:
\* each counter is the number of rows with that outcome
C14_ParallelEqualsSequential ==
  pc = "done" =>
    /\ \A i \in 1..Len(df) : resolved[i] = SequentialResult(i)
    /\ \A k \in Strategies :
         stats[k] = Cardinality({i \in 1..Len(df) : SequentialResult(i).strategy = k})

(***************************************************************************)
(* Properties of the resolver (checked under GeoSpec)                      *)
(***************************************************************************)
\* the rows get_coords has been applied to
Done == 1..Len(resolved)

ExactCoords(c) == <<exact_dict[c].stop_lat, exact_dict[c].stop_lon>>

NoStation(c) == StationMatch(c, station_avg_dict) = None
NoIntersection(c) == IntersectionMatch(c, intersection_avg_dict) = None
NoPartial(c) == PartialMatch(c, exact_dict) = None

\* a key of the ExactIndex resolves as Exact with that entry's coordinates
ExactWins(i) ==
  LET c == cleaned_location[i] IN
  c \in DOMAIN exact_dict =>
    resolved[i] = [strategy |-> "exact", coords |-> ExactCoords(c)]

\* Station, Intersection and Partial are returned only when no earlier strategy matched
LaterOnlyAfterEarlier(i) ==
  LET c == cleaned_location[i]
      r == resolved[i]
  IN  /\ r.strategy = "station" =>
           /\ c \notin DOMAIN exact_dict
           /\ r.coords # None /\ r.coords = StationMatch(c, station_avg_dict)
      /\ r.strategy = "intersection" =>
           /\ c \notin DOMAIN exact_dict /\ NoStation(c)
           /\ r.coords # None /\ r.coords = IntersectionMatch(c, intersection_avg_dict)
      /\ r.strategy = "partial" =>
           /\ c \notin DOMAIN exact_dict /\ NoStation(c) /\ NoIntersection(c)
           /\ r.coords # None /\ r.coords = PartialMatch(c, exact_dict)

NothingMatched(c) ==
  c \notin DOMAIN exact_dict /\ NoStation(c) /\ NoIntersection(c) /\ NoPartial(c)

\* C2 as stated: for every query the first strategy that succeeds decides, a key of
\* the ExactIndex always resolves as Exact, and Failed means that nothing matched
C2_StrictPriorityEveryQuery ==
  pc = "match" =>
    \A i \in Done :
      /\ ExactWins(i)
      /\ LaterOnlyAfterEarlier(i)
      /\ resolved[i].strategy = "failed" => NothingMatched(cleaned_location[i])

\* C2 amended: the same for every non-empty normalized query; an empty one is Failed
\* before any strategy is tried, even when '' is a key of the ExactIndex
C2_StrictPriority ==
  pc = "match" =>
    \A i \in Done :
      LET c == cleaned_location[i] IN
      /\ c # <<>> => ExactWins(i)
      /\ LaterOnlyAfterEarlier(i)
      /\ resolved[i].strategy = "failed" => (c = <<>> \/ NothingMatched(c))
      /\ c = <<>> => resolved[i] = [strategy |-> "failed", coords |-> None]

\* a row resolved as Exact although the Intersection strategy matches it too, with
\* other coordinates
C2_Witness ==
  /\ pc = "match"
  /\ \E i \in Done :
       /\ resolved[i].strategy = "exact"
       /\ ~NoIntersection(cleaned_location[i])
       /\ IntersectionMatch(cleaned_location[i], intersection_avg_dict) # resolved[i].coords

\* the pairs ("A and B", "B and A") among the locations
SymmetricQueries ==
  {<<Loc.BathurstAndWilson, Loc.WilsonAndBathurst>>,
   <<Loc.BathurstAmpWilson, Loc.WilsonAndBathurst>>}

C7_OwnCoordinates ==
  \A i \in Done :
    (Stop.MainSt \in stops_df /\ df[i] = Loc.MainStStation) =>
      resolved[i] = [strategy |-> "exact",
                     coords |-> <<Exact1(Stop.MainSt.stop_lat), Exact1(Stop.MainSt.stop_lon)>>]

\* C7 amended: it is Exact with the mean of the coordinates of all records whose
\* name normalizes to 'main st station'
C7_MeanOfSameName ==
  pc = "match" =>
    \A i \in Done :
      (Stop.MainSt \in stops_df /\ df[i] = Loc.MainStStation) =>
        LET same == {[stop |-> r] : r \in {q \in stops_df : cleaned_name[q] = cleaned_location[i]}}
        IN  resolved[i] = [strategy |-> "exact",
                           coords |-> <<Mean(same, "stop_lat"), Mean(same, "stop_lon")>>]

\* 'main st station' resolved with two records of that normalized name in the set
C7_Witness ==
  /\ pc = "match"
  /\ stops_df = {Stop.MainSt, Stop.MainStDot}
  /\ \E i \in Done : df[i] = Loc.MainStStation /\ resolved[i].strategy = "exact"

BathurstWilsonStops ==
  {[stop |-> r] : r \in {q \in stops_df :
                           IntersectionKey(cleaned_name[q]) = <<W.bathurst, W.wilson>>}}

\* C9 as stated: with "Bathurst St at Wilson Ave" in the stop set, "bathurst and
\* wilson" and "bathurst & wilson" resolve as Intersection to the mean of the stops
\* whose intersection key is (bathurst, wilson)
C9_AlwaysIntersection ==
  pc = "match" =>
    \A i \in Done :
      ( /\ Stop.BathurstWilson \in stops_df
        /\ df[i] \in {Loc.BathurstAndWilson, Loc.BathurstAmpWilson} )
      => /\ resolved[i].strategy = "intersection"
         /\ resolved[i].coords = <<Mean(BathurstWilsonStops, "stop_lat"),
                                   Mean(BathurstWilsonStops, "stop_lon")>>

\* C9 amended: the same when no stop's normalized name is the normalized query
\* 'bathurst at wilson' itself
C9_BathurstAndWilson ==
  pc = "match" =>
    \A i \in Done :
      ( /\ Stop.BathurstWilson \in stops_df
        /\ df[i] \in {Loc.BathurstAndWilson, Loc.BathurstAmpWilson}
        /\ cleaned_location[i] \notin DOMAIN exact_dict )
      => /\ resolved[i].strategy = "intersection"
         /\ resolved[i].coords = <<Mean(BathurstWilsonStops, "stop_lat"),
                                   Mean(BathurstWilsonStops, "stop_lon")>>

\* "bathurst & wilson" resolved to the mean of two intersection stops
C9_Witness ==
  /\ pc = "match"
  /\ stops_df = {Stop.BathurstWilson, Stop.WilsonBathurst}
  /\ \E i \in Done :
       /\ df[i] = Loc.BathurstAmpWilson
       /\ resolved[i].strategy = "intersection"
       /\ resolved[i].coords # <<Exact1(Stop.BathurstWilson.stop_lat),
                                  Exact1(Stop.BathurstWilson.stop_lon)>>

DistinctTokens(c) == Cardinality(Range(str_split(c)))

\* C10: a query with fewer than 2 distinct tokens is never resolved as Partial
C10_NoPartialBelowTwoTokens ==
  pc = "match" =>
    \A i \in Done :
      DistinctTokens(cleaned_location[i]) < 2 => resolved[i].strategy # "partial"

\* "wilson wilson" (one distinct token, shared with a stop name) failed, while
\* "wilson bathurst" was resolved as Partial against the same stop
C10_Witness ==
  /\ pc = "match"
  /\ Stop.WilsonAtBathurst \in stops_df
  /\ \E i, j \in Done :
       /\ df[i] = Loc.WilsonWilson /\ resolved[i].strategy = "failed"
       /\ df[j] = Loc.WilsonBathurst /\ resolved[j].strategy = "partial"

\* the rows that got the outcome k
RowsWith(k) == {i \in Done : resolved[i].strategy = k}

\* df['latitude'].notna(): the rows that received coordinates
RowsWithCoordinates == {i \in Done : resolved[i].coords # None}

\* C12: each call of get_coords counts exactly one of the five outcomes: every
\* counter is the number of rows with that outcome, the five counters sum to the
\* number of rows resolved so far (all N rows when the summary is printed), and the
\* rows with coordinates number exact + station + intersection + partial
C12_CountersSumToRows ==
  pc \in {"match", "done"} =>
    /\ \A k \in Strategies : stats[k] = Cardinality(RowsWith(k))
    /\ stats["exact"] + stats["station"] + stats["intersection"] + stats["partial"]
         + stats["failed"] = Len(resolved)
    /\ Cardinality(RowsWithCoordinates)
         = stats["exact"] + stats["station"] + stats["intersection"] + stats["partial"]
    /\ pc = "done" => Len(resolved) = Len(df)

\* the summary of a batch of two rows, one Failed on a missing location and one
\* resolved as Partial
C12_Witness ==
  /\ pc = "done"
  /\ Len(df) = 2
  /\ df[1] = NotAString
  /\ stats["failed"] = 1
  /\ stats["partial"] = 1

\* the tokens of the query that a key shares with it, stop words left out
SharedTokens(c, key) ==
  (Range(str_split(c)) \cap Range(str_split(key))) \ STOP_WORDS

\* all tokens of the query and of the key
AllTokens(c, key) == Range(str_split(c)) \cup Range(str_split(key))

\* the ExactIndex keys that share at least 2 meaningful tokens with the query
Candidates(c) == {key \in DOMAIN exact_dict : Cardinality(SharedTokens(c, key)) >= 2}

\* score(a) > score(b), the scores being |shared| / |all|
ScoresHigher(c, a, b) ==
  Cardinality(SharedTokens(c, a)) * Cardinality(AllTokens(c, b))
    > Cardinality(SharedTokens(c, b)) * Cardinality(AllTokens(c, a))

\* the candidate kept: no candidate scores higher, and every other candidate with
\* the same score comes later in the ExactIndex, whose keys are in sorted order
KeptCandidate(c) ==
  CHOOSE a \in Candidates(c) :
    \A b \in Candidates(c) \ {a} : ScoresHigher(c, a, b) \/ (~ScoresHigher(c, b, a) /\ StrLess(a, b))

\* score(key) >= 0.5
ScoreAccepted(c, key) ==
  2 * Cardinality(SharedTokens(c, key)) >= Cardinality(AllTokens(c, key))

\* C19: a query that Exact, Station and Intersection did not resolve is Partial with
\* the coordinates of the kept candidate (highest score, the first seen among equal
\* scores) if and only if a candidate exists and its score is at least 0.5, and
\* Failed otherwise
C19_PartialAcceptance ==
  pc = "match" =>
    \A i \in Done :
      LET c == cleaned_location[i] IN
      (c # <<>> /\ c \notin DOMAIN exact_dict /\ NoStation(c) /\ NoIntersection(c)) =>
        IF Candidates(c) # {} /\ ScoreAccepted(c, KeptCandidate(c))
          THEN resolved[i] = [strategy |-> "partial", coords |-> ExactCoords(KeptCandidate(c))]
          ELSE resolved[i] = [strategy |-> "failed", coords |-> None]

\* "wilson bathurst" shares 2 of 3 tokens with both 'bathurst at wilson' and 'wilson at
\* bathurst' and is Partial with the coordinates of the first of them
C19_Witness ==
  /\ pc = "match"
  /\ stops_df = {Stop.WilsonAtBathurst, Stop.BathurstAtWilson}
  /\ df = <<Loc.WilsonBathurst>>
  /\ resolved = <<[strategy |-> "partial",
                   coords |-> <<Exact1(Stop.BathurstAtWilson.stop_lat),
                                Exact1(Stop.BathurstAtWilson.stop_lon)>>]>>

\* the stops of the registry at the corner of Bathurst and Wilson, named in either
\* order
CornerStops ==
  {[stop |-> r] : r \in stops_df \cap {Stop.BathurstWilson, Stop.WilsonBathurst,
                                       Stop.WilsonAtBathurst, Stop.BathurstAtWilson}}

\* C20: stops named "A ... at B ..." and "B ... at A ..." contribute to one key of the
\* IntersectionIndex, the sorted pair of A and B, and the value stored for it is the
\* arithmetic mean of the latitudes and of the longitudes of all of them
C20_OrderIndependentMean ==
  pc \in {"match", "done"} =>
    IF CornerStops = {}
      THEN DOMAIN intersection_avg_dict = {}
      ELSE /\ DOMAIN intersection_avg_dict = {<<W.bathurst, W.wilson>>}
           /\ intersection_avg_dict[<<W.bathurst, W.wilson>>]
                = <<Mean(CornerStops, "stop_lat"), Mean(CornerStops, "stop_lon")>>

\* "Bathurst St at Wilson Ave" and "Wilson Ave at Bathurst St" share the one key,
\* whose value is neither stop's own position
C20_Witness ==
  /\ pc = "match"
  /\ stops_df = {Stop.BathurstWilson, Stop.WilsonBathurst}
  /\ DOMAIN intersection_avg_dict = {<<W.bathurst, W.wilson>>}
  /\ \A r \in stops_df :
       intersection_avg_dict[<<W.bathurst, W.wilson>>][1] # Exact1(r.stop_lat)

\* the stops of the registry whose name normalizes to key
Contributing(key) == {r \in stops_df : clean_location_string(r.stop_name) = key}

\* the fraction value is the arithmetic mean of the field over the stops of S
IsMeanOf(value, S, field) ==
  /\ value[2] > 0
  /\ value[1] * Cardinality(S) = value[2] * SumOver({[stop |-> r] : r \in S}, field)

\* C21: after the build the ExactIndex has one entry for each distinct normalized
\* stop name and no other, each entry holds the arithmetic means of the latitudes and
\* of the longitudes of the stops whose name normalizes to its key, and an entry
\* with one contributing stop holds that stop's coordinates
C21_ExactIndexMeans ==
  (pc = "match" /\ resolved = <<>>) =>
    /\ DOMAIN exact_dict = {clean_location_string(r.stop_name) : r \in stops_df}
    /\ \A key \in DOMAIN exact_dict :
         /\ IsMeanOf(exact_dict[key].stop_lat, Contributing(key), "stop_lat")
         /\ IsMeanOf(exact_dict[key].stop_lon, Contributing(key), "stop_lon")
         /\ \A r \in stops_df :
              Contributing(key) = {r} =>
                exact_dict[key] = [stop_lat |-> Exact1(r.stop_lat),
                                   stop_lon |-> Exact1(r.stop_lon)]

\* "Main St Station" and "Main St. Station" share the one entry 'main st station',
\* at (43.6895, -79.3015)
C21_Witness ==
  /\ pc = "match"
  /\ resolved = <<>>
  /\ stops_df = {Stop.MainSt, Stop.MainStDot}
  /\ Cardinality(DOMAIN exact_dict) = 1
  /\ \A key \in DOMAIN exact_dict :
       exact_dict[key] = [stop_lat |-> Exact1(436895), stop_lon |-> Exact1(-793015)]

\* C25: once the indexes are built no step changes the ExactIndex, the StationIndex
\* or the IntersectionIndex, and a resolve call (a step that returns a row's result)
\* changes nothing but the counters besides
C25_IndexesImmutable ==
  [][ /\ pc = "match" => UNCHANGED <<exact_dict, station_avg_dict, intersection_avg_dict>>
      /\ resolved' # resolved =>
           UNCHANGED <<pc, stops_df, df, cleaned_name, cleaned_location, exact_dict,
                       station_avg_dict, intersection_avg_dict>> ]_vars

\* two resolve calls, one of them Partial, have returned and the three indexes,
\* none of them empty, are what the build made of the registry
C25_Witness ==
  /\ pc = "match"
  /\ Len(resolved) = 2
  /\ \E i \in Done : resolved[i].strategy = "partial"
  /\ exact_dict # <<>> /\ exact_dict = BuildExact(stops_df, cleaned_name)
  /\ station_avg_dict # <<>> /\ station_avg_dict = BuildStation(stops_df, cleaned_name)
  /\ intersection_avg_dict # <<>>
  /\ intersection_avg_dict = BuildIntersection(stops_df, cleaned_name)

\* the (latitude, longitude) pairs of the entries of an ExactIndex
ExactPairs == {<<exact_dict[k].stop_lat, exact_dict[k].stop_lon>> : k \in DOMAIN exact_dict}

\* the values of an index, as a set
Entries(index) == {index[k] : k \in DOMAIN index}

\* C26: a result is without coordinates exactly when its outcome is Failed, and the
\* pair of an Exact or Partial outcome is that of an ExactIndex entry, the pair of a
\* Station outcome that of a StationIndex entry, the pair of an Intersection outcome
\* that of an IntersectionIndex entry
C26_CoordinatesUnlessFailed ==
  pc = "match" =>
    \A i \in Done :
      LET r == resolved[i] IN
      /\ r.coords = None <=> r.strategy = "failed"
      /\ r.strategy \in {"exact", "partial"} => r.coords \in ExactPairs
      /\ r.strategy = "station" => r.coords \in Entries(station_avg_dict)
      /\ r.strategy = "intersection" => r.coords \in Entries(intersection_avg_dict)

\* a batch with a Failed row without coordinates, although a stop shares a word with
\* it, and an Intersection row with the pair of the one IntersectionIndex entry
C26_Witness ==
  /\ pc = "match"
  /\ stops_df = {Stop.Kennedy, Stop.BathurstWilson}
  /\ df = <<Loc.Kennedy, Loc.BathurstAndWilson>>
  /\ resolved = <<[strategy |-> "failed", coords |-> None],
                  [strategy |-> "intersection",
                   coords |-> <<Exact1(Stop.BathurstWilson.stop_lat),
                                Exact1(Stop.BathurstWilson.stop_lon)>>]>>

(***************************************************************************)
(* Properties of the resolver on the second registry (checked under        *)
(* EdgeSpec)                                                               *)
(***************************************************************************)
\* the values of df['location'] that carry no word: a missing value, the empty
\* text, blanks only, punctuation only
WordlessLocations == {NotAString, Loc.Empty, Loc.Spaces, Loc.Punctuation}

\* C11: get_coords returns one of the five outcomes for every value of the location
\* column, and a value that normalizes to the empty string (a missing value, an
\* empty, blank or punctuation-only text) is Failed without coordinates, also when
\* '' is a key of the ExactIndex
C11_EmptyAlwaysFailed ==
  pc = "match" =>
    \A i \in Done :
      /\ resolved[i].strategy \in Strategies
      /\ df[i] \in WordlessLocations => cleaned_location[i] = <<>>
      /\ cleaned_location[i] = <<>> =>
           resolved[i] = [strategy |-> "failed", coords |-> None]

\* a punctuation-only and a missing location were resolved as Failed while the
\* registry holds a stop whose normalized name is '' as well
C11_Witness ==
  /\ pc = "match"
  /\ Stop.NoName \in stops_df
  /\ <<>> \in DOMAIN exact_dict
  /\ Len(resolved) = 2
  /\ df = <<Loc.Punctuation, NotAString>>
  /\ \A i \in Done : resolved[i].strategy = "failed"

\* the suffix windows of 1 to 4 tokens that end at a token 'station' of the name
SuffixWindows(name) ==
  LET parts == str_split(name) IN
  {str_join(SubSeq(parts, i - n + 1, i)) :
     <<i, n>> \in {p \in (1..Len(parts)) \X (1..4) :
                     parts[p[1]] = W.station /\ p[2] <= p[1]}}

\* C16: every suffix window of 1 to 4 tokens ending at 'station' of every normalized
\* stop name is a key of the StationIndex, and with the stop "West Side of King
\* Station" as the only station of the registry the query "king station" resolves as
\* Station with that stop's coordinates
C16_EverySuffixWindowIndexed ==
  pc = "match" =>
    /\ \A r \in stops_df : SuffixWindows(cleaned_name[r]) \subseteq DOMAIN station_avg_dict
    /\ \A i \in Done :
         (df[i] = Loc.KingStation /\ stops_df = {Stop.WestSideOfKing}) =>
           resolved[i] = [strategy |-> "station",
                          coords |-> <<Exact1(Stop.WestSideOfKing.stop_lat),
                                       Exact1(Stop.WestSideOfKing.stop_lon)>>]

\* the key the spec gives a name with the token 'at': the name is split at the first
\* ' at ', and the first token of each side forms the sorted pair
FirstAtKey(name) ==
  LET parts == str_split(name)
      at == Min({i \in 1..Len(parts) : parts[i] = W.at})
  IN  SortedPair(parts[1], parts[at + 1])

\* the token 'at' occurs more than once, with a token before the first, between
\* them, and after the last
SeveralAt(name) ==
  LET parts == str_split(name)
      ats == {i \in 1..Len(parts) : parts[i] = W.at}
  IN  /\ Cardinality(ats) > 1
      /\ 1 \notin ats /\ Len(parts) \notin ats
      /\ \A i \in ats : i + 1 \notin ats

\* C17: a normalized stop name with 'at' more than once is entered in the
\* IntersectionIndex under the sorted pair of the first token before and the first
\* token after the first 'at', and a query with 'at' more than once whose pair is a
\* key resolves as Intersection when no earlier strategy matches
C17_RepeatedAtSplitsAtFirst ==
  pc = "match" =>
    /\ \A r \in stops_df :
         SeveralAt(cleaned_name[r]) => FirstAtKey(cleaned_name[r]) \in DOMAIN intersection_avg_dict
    /\ \A i \in Done :
         LET c == cleaned_location[i] IN
         ( /\ SeveralAt(c)
           /\ FirstAtKey(c) \in DOMAIN intersection_avg_dict
           /\ c \notin DOMAIN exact_dict
           /\ NoStation(c) )
         => resolved[i] = [strategy |-> "intersection",
                           coords |-> intersection_avg_dict[FirstAtKey(c)]]

\* the window of the n tokens before the first token 'station' of the query,
\* together with 'station'
WindowBefore(words, n) ==
  LET station_idx == Min({i \in 1..Len(words) : words[i] = W.station})
  IN  str_join(SubSeq(words, station_idx - n, station_idx))

\* how many tokens before 'station' the windows that are StationIndex keys take
KeyWindows(words) ==
  LET station_idx == Min({i \in 1..Len(words) : words[i] = W.station})
  IN  {n \in 1..3 : n < station_idx /\ WindowBefore(words, n) \in DOMAIN station_avg_dict}

Widest(S) == CHOOSE n \in S : \A m \in S : n >= m

\* C18: for a query that holds the token 'station' and is neither an ExactIndex nor a
\* StationIndex key, the windows of 3, 2, 1 tokens before 'station' are tried widest
\* first: the outcome is Station with the coordinates of the widest window that is a
\* StationIndex key, and when none is a key the Intersection strategy decides next
C18_WidestWindowFirst ==
  pc = "match" =>
    \A i \in Done :
      LET c == cleaned_location[i]
          words == str_split(c)
      IN  ( /\ W.station \in Range(words)
            /\ c \notin DOMAIN exact_dict
            /\ c \notin DOMAIN station_avg_dict )
          => IF KeyWindows(words) # {}
               THEN resolved[i] =
                      [strategy |-> "station",
                       coords |-> station_avg_dict[WindowBefore(words, Widest(KeyWindows(words)))]]
               ELSE /\ resolved[i].strategy # "station"
                    /\ ~NoIntersection(c) =>
                         resolved[i] =
                           [strategy |-> "intersection",
                            coords |-> IntersectionMatch(c, intersection_avg_dict)]

\* "near old king station" against the stations "King Station" and "Old King
\* Station" got the coordinates of 'old king station', the wider of its two windows
\* that are keys
C18_Witness ==
  /\ pc = "match"
  /\ stops_df = {Stop.KingStation, Stop.OldKing}
  /\ df = <<Loc.NearOldKing>>
  /\ resolved = <<[strategy |-> "station",
                   coords |-> <<Exact1(Stop.OldKing.stop_lat),
                                Exact1(Stop.OldKing.stop_lon)>>]>>

(***************************************************************************)
(* clean_location_string applied twice: the raw texts are words joined by  *)
(* a blank, a comma or a full stop                                         *)
(***************************************************************************)
NormWords ==
  {<<"K","i","n","g">>,
   <<"b","a","y">>,
   <<"a","n","d">>,
   <<"a","t">>,
   <<"&">>,
   <<"S","T","N">>,
   <<"s","t">>,
   <<"a","v","e">>,
   <<"n">>}

NormSeparators == {<<" ">>, <<",">>, <<".">>}

\* words[1] seps[1] words[2] ... words[n]
RECURSIVE Compose(_, _, _)
Compose(words, seps, i) ==
  IF i = Len(words) THEN words[i]
  ELSE words[i] \o seps[i] \o Compose(words, seps, i + 1)

NormTexts ==
  UNION {{Compose(w, p, 1) : w \in [1..n -> NormWords], p \in [1..(n - 1) -> NormSeparators]} :
           n \in 1..MaxPieces}

NormInit ==
  /\ n_pc = "raw"
  /\ n_text \in NormTexts
  /\ n_once = <<>>
  /\ n_twice = <<>>
  /\ GeoIdle
  /\ PredIdle

CleanOnce ==
  /\ n_pc = "raw"
  /\ n_once' = clean_location_string(n_text)
  /\ n_pc' = "once"
  /\ UNCHANGED <<n_text, n_twice, geo_vars, pred_vars>>

CleanTwice ==
  /\ n_pc = "once"
  /\ n_twice' = clean_location_string(n_once)
  /\ n_pc' = "twice"
  /\ UNCHANGED <<n_text, n_once, geo_vars, pred_vars>>

NormNext == CleanOnce \/ CleanTwice

NormSpec == NormInit /\ [][NormNext]_vars

\* C5: the normalizer is idempotent: cleaning a cleaned text changes nothing
C5_Idempotent == n_pc = "twice" => n_twice = n_once

(***************************************************************************)
(* feature_engineering.py and predictor.py: the feature columns the        *)
(* training run persists, and the vector rebuilt for one request           *)
(***************************************************************************)
\* distinct rows of a historical dataset
MaxDataRows == 2

\* a number n/d in lowest terms (Python int and float alike)
Ratio(n, d) == [k |-> "num", n |-> Frac(n, d)[1], d |-> Frac(n, d)[2]]
Num(n) == Ratio(n, 1)
\* np.sin(2 * np.pi * n / d), np.cos(2 * np.pi * n / d), np.sqrt(n / d): not evaluated
Sin2Pi(n, d) == [k |-> "sin2pi", n |-> Frac(n, d)[1], d |-> Frac(n, d)[2]]
Cos2Pi(n, d) == [k |-> "cos2pi", n |-> Frac(n, d)[1], d |-> Frac(n, d)[2]]
Sqrt(n, d) == [k |-> "sqrt", n |-> Frac(n, d)[1], d |-> Frac(n, d)[2]]
\* int(b)
Flag(b) == IF b THEN Num(1) ELSE Num(0)

\* str.startswith
str_startswith(s, prefix) == MatchAt(s, 1, prefix)

\* str.replace(old, new): every occurrence, left to right
RECURSIVE str_replace(_, _, _)
str_replace(s, old, new) ==
  IF s = <<>> THEN <<>>
  ELSE IF MatchAt(s, 1, old)
    THEN new \o str_replace(SubSeq(s, Len(old) + 1, Len(s)), old, new)
    ELSE <<s[1]>> \o str_replace(Tail(s), old, new)

\* str.isdigit
str_isdigit(s) == s # <<>> /\ \A i \in 1..Len(s) : s[i] \in Range(DigitSeq)

DigitValue(c) == (CHOOSE i \in 1..Len(DigitSeq) : DigitSeq[i] = c) - 1

\* float(s) of a string of digits
RECURSIVE str_float(_)
str_float(s) ==
  IF s = <<>> THEN 0
  ELSE 10 * str_float(SubSeq(s, 1, Len(s) - 1)) + DigitValue(s[Len(s)])

\* the column names
F ==
  [latitude |->
      <<"l","a","t","i","t","u","d","e">>,
   longitude |->
      <<"l","o","n","g","i","t","u","d","e">>,
   year |->
      <<"y","e","a","r">>,
   month |->
      <<"m","o","n","t","h">>,
   day_of_month |->
      <<"d","a","y","_","o","f","_","m","o","n","t","h">>,
   day_of_week |->
      <<"d","a","y","_","o","f","_","w","e","e","k">>,
   hour |->
      <<"h","o","u","r">>,
   minute |->
      <<"m","i","n","u","t","e">>,
   day_of_year |->
      <<"d","a","y","_","o","f","_","y","e","a","r">>,
   week_of_year |->
      <<"w","e","e","k","_","o","f","_","y","e","a","r">>,
   quarter |->
      <<"q","u","a","r","t","e","r">>,
   hour_sin |->
      <<"h","o","u","r","_","s","i","n">>,
   hour_cos |->
      <<"h","o","u","r","_","c","o","s">>,
   month_sin |->
      <<"m","o","n","t","h","_","s","i","n">>,
   month_cos |->
      <<"m","o","n","t","h","_","c","o","s">>,
   day_of_week_sin |->
      <<"d","a","y","_","o","f","_","w","e","e","k","_","s","i","n">>,
   day_of_week_cos |->
      <<"d","a","y","_","o","f","_","w","e","e","k","_","c","o","s">>,
   is_weekend |->
      <<"i","s","_","w","e","e","k","e","n","d">>,
   is_rush_hour_am |->
      <<"i","s","_","r","u","s","h","_","h","o","u","r","_","a","m">>,
   is_rush_hour_pm |->
      <<"i","s","_","r","u","s","h","_","h","o","u","r","_","p","m">>,
   is_rush_hour |->
      <<"i","s","_","r","u","s","h","_","h","o","u","r">>,
   is_night |->
      <<"i","s","_","n","i","g","h","t">>,
   is_weekday |->
      <<"i","s","_","w","e","e","k","d","a","y">>,
   season |->
      <<"s","e","a","s","o","n">>,
   dist_from_center |->
      <<"d","i","s","t","_","f","r","o","m","_","c","e","n","t","e","r">>,
   route_numeric |->
      <<"r","o","u","t","e","_","n","u","m","e","r","i","c">>,
   route_is_numeric |->
      <<"r","o","u","t","e","_","i","s","_","n","u","m","e","r","i","c">>,
   route_frequency |->
      <<"r","o","u","t","e","_","f","r","e","q","u","e","n","c","y">>,
   incident_avg_delay |->
      <<"i","n","c","i","d","e","n","t","_","a","v","g","_","d","e","l","a","y">>,
   spatial_cell_avg_delay |->
      <<"s","p","a","t","i","a","l","_","c","e","l","l","_","a","v","g","_","d","e","l","a","y">>,
   location_frequency |->
      <<"l","o","c","a","t","i","o","n","_","f","r","e","q","u","e","n","c","y">>,
   incident_Other |->
      <<"i","n","c","i","d","e","n","t","_","O","t","h","e","r">>]

\* the prefixes of the one-hot columns
P_incident == <<"i","n","c","i","d","e","n","t","_">>
P_dir == <<"d","i","r","_">>
P_day == <<"d","a","y","_">>

N_Other == <<"O","t","h","e","r">>
N_UNKNOWN == <<"U","N","K","N","O","W","N">>

\* day_names
day_names == <<<<"M","o","n","d","a","y">>,
              <<"T","u","e","s","d","a","y">>,
              <<"W","e","d","n","e","s","d","a","y">>,
              <<"T","h","u","r","s","d","a","y">>,
              <<"F","r","i","d","a","y">>,
              <<"S","a","t","u","r","d","a","y">>,
              <<"S","u","n","d","a","y">>>>

\* df['direction'].fillna('UNKNOWN').replace(direction_map): whole values are replaced
direction_clean(direction) ==
  IF direction = NotAString THEN N_UNKNOWN
  ELSE IF direction = <<"E">> THEN <<"E","A","S","T">>
  ELSE IF direction = <<"W">> THEN <<"W","E","S","T">>
  ELSE IF direction = <<"N">> THEN <<"N","O","R","T","H">>
  ELSE IF direction = <<"S">> THEN <<"S","O","U","T","H">>
  ELSE IF direction = <<"E","B">> THEN <<"E","A","S","T">>
  ELSE IF direction = <<"W","B">> THEN <<"W","E","S","T">>
  ELSE IF direction = <<"N","B">> THEN <<"N","O","R","T","H">>
  ELSE IF direction = <<"S","B">> THEN <<"S","O","U","T","H">>
  ELSE IF direction = <<"e">> THEN <<"E","A","S","T">>
  ELSE IF direction = <<"w">> THEN <<"W","E","S","T">>
  ELSE IF direction = <<"n">> THEN <<"N","O","R","T","H">>
  ELSE IF direction = <<"s">> THEN <<"S","O","U","T","H">>
  ELSE IF direction = <<"E","/","B">> THEN <<"E","A","S","T">>
  ELSE IF direction = <<"W","/","B">> THEN <<"W","E","S","T">>
  ELSE IF direction = <<"N","/","B">> THEN <<"N","O","R","T","H">>
  ELSE IF direction = <<"S","/","B">> THEN <<"S","O","U","T","H">>
  ELSE IF direction = <<"B","W">> THEN <<"B","I","D","I","R","E","C","T","I","O","N","A","L">>
  ELSE IF direction = <<"B","/","W">> THEN <<"B","I","D","I","R","E","C","T","I","O","N","A","L">>
  ELSE IF direction = <<"b","o","t","h"," ","w","a","y","s">> THEN <<"B","I","D","I","R","E","C","T","I","O","N","A","L">>
  ELSE direction

\* season_map
season_map(month) ==
  IF month \in {12, 1, 2} THEN 0
  ELSE IF month \in {3, 4, 5} THEN 1
  ELSE IF month \in {6, 7, 8} THEN 2
  ELSE 3

TORONTO_CENTER_LAT == 436532
TORONTO_CENTER_LON == -793832
\* one degree in the unit of the coordinates
Degree == 10000
\* rare_threshold = 0.01, in percent
rare_threshold == 1

(***************************************************************************)
(* A dataset maps each distinct row to the number of its copies            *)
(***************************************************************************)
RECURSIVE RowCount(_, _)
\* the number of rows of df among the distinct rows S
RowCount(rows, S) ==
  IF S = {} THEN 0
  ELSE LET r == CHOOSE x \in S : TRUE IN rows[r] + RowCount(rows, S \ {r})

RECURSIVE DelaySum(_, _)
\* the sum of min_delay over the rows of df among the distinct rows S
DelaySum(rows, S) ==
  IF S = {} THEN 0
  ELSE LET r == CHOOSE x \in S : TRUE
       IN  rows[r] * r.min_delay + DelaySum(rows, S \ {r})

\* df[S]['min_delay'].mean()
DelayMean(rows, S) == Ratio(DelaySum(rows, S), RowCount(rows, S))

\* df[field].unique()
Unique(rows, field) == {r[field] : r \in DOMAIN rows}

\* df[field].value_counts()
value_counts(rows, field) ==
  [v \in Unique(rows, field) |-> RowCount(rows, {r \in DOMAIN rows : r[field] = v})]

RECURSIVE SortedCounts(_, _)
SortedCounts(counts, K) ==
  IF K = {} THEN <<>>
  ELSE LET m == CHOOSE k \in K : \A j \in K : counts[k] <= counts[j]
       IN  <<counts[m]>> \o SortedCounts(counts, K \ {m})

\* Series.median() of a value_counts() result
Median(counts) ==
  LET s == SortedCounts(counts, DOMAIN counts)
      n == Len(s)
  IN  IF n % 2 = 1 THEN Num(s[(n + 1) \div 2])
      ELSE Ratio(s[n \div 2] + s[n \div 2 + 1], 2)

RECURSIVE RatioSum(_, _)
\* the sum of the numbers f[k], k in K
RatioSum(f, K) ==
  IF K = {} THEN Num(0)
  ELSE LET k == CHOOSE x \in K : TRUE
           rest == RatioSum(f, K \ {k})
       IN  Ratio(f[k].n * rest.d + rest.n * f[k].d, f[k].d * rest.d)

\* Series.mean() of a groupby().mean() result
MeanOfMeans(f) ==
  LET s == RatioSum(f, DOMAIN f)
  IN  Ratio(s.n, s.d * Cardinality(DOMAIN f))

(***************************************************************************)
(* engineer_features, prepare_training_data, main: X.columns.tolist()      *)
(***************************************************************************)
\* incident_counts[incident_counts < rare_threshold].index
rare_incidents(rows) ==
  {t \in Unique(rows, "incident") :
     100 * value_counts(rows, "incident")[t] < rare_threshold * RowCount(rows, DOMAIN rows)}

\* the values of df_feat['incident_grouped']
incident_grouped(rows) ==
  {IF t \in rare_incidents(rows) THEN N_Other ELSE t : t \in Unique(rows, "incident")}

\* pd.get_dummies(values, prefix=...).columns: one column per value, sorted
get_dummies(values, prefix) ==
  LET sorted == SortedKeys(values)
  IN  [i \in 1..Len(sorted) |-> prefix \o sorted[i]]

\* the columns of X that do not depend on the data, in the order they are created
BaseColumns ==
  <<F.latitude,
    F.longitude,
    F.year,
    F.month,
    F.day_of_month,
    F.day_of_week,
    F.hour,
    F.minute,
    F.day_of_year,
    F.week_of_year,
    F.quarter,
    F.hour_sin,
    F.hour_cos,
    F.month_sin,
    F.month_cos,
    F.day_of_week_sin,
    F.day_of_week_cos,
    F.is_weekend,
    F.is_rush_hour_am,
    F.is_rush_hour_pm,
    F.is_rush_hour,
    F.is_night,
    F.is_weekday,
    F.season,
    F.dist_from_center,
    F.route_numeric,
    F.route_is_numeric,
    F.route_frequency>>

\* X.columns.tolist() for the dataset df
FeatureColumns(rows) ==
  BaseColumns
    \o get_dummies(incident_grouped(rows), P_incident)
    \o get_dummies({direction_clean(d) : d \in Unique(rows, "direction")}, P_dir)
    \o get_dummies(Unique(rows, "day"), P_day)
    \o <<F.spatial_cell_avg_delay, F.location_frequency>>

(***************************************************************************)
(* DelayPredictor                                                          *)
(***************************************************************************)
NoData == [exists |-> FALSE, rows |-> <<>>]
NoModel == [exists |-> FALSE, model |-> <<>>, feature_columns |-> <<>>]

\* train_model: the fitted regressor; it reads its input by position, in the order
\* of the columns of the X it was fitted on
LGBMRegressor(X_columns) == [feature_name |-> X_columns]

\* save_model_artifacts: the dict that main dumps for the dataset df
Artifacts(rows) ==
  [exists |-> TRUE,
   model |-> LGBMRegressor(FeatureColumns(rows)),
   feature_columns |-> FeatureColumns(rows)]

\* __init__ once the model file is found: the attributes of the new object;
\* incident_types is set only when historical data was found
DelayPredictor(artifacts, data) ==
  IF data.exists
    THEN [model |-> artifacts.model,
          feature_columns |-> artifacts.feature_columns,
          historical_data |-> data,
          incident_types  |-> SortedKeys(Unique(data.rows, "incident"))]
    ELSE [model |-> artifacts.model,
          feature_columns |-> artifacts.feature_columns,
          historical_data |-> data]

\* the one-hot expression of lines 247-248 raises AttributeError for column col:
\* the right operand of 'or' reads self.incident_types
IncidentRaises(self, incident_type, col) ==
  LET incident_name == str_replace(col, P_incident, <<>>) IN
  /\ incident_type # incident_name
  /\ incident_name = N_Other
  /\ "incident_types" \notin DOMAIN self

\* the value of lines 247-248 for column col
IncidentValue(self, incident_type, col) ==
  LET incident_name == str_replace(col, P_incident, <<>>) IN
  Flag(\/ incident_type = incident_name
       \/ (incident_name = N_Other /\ incident_type \notin Range(self.incident_types)))

\* the dict features before the return statement
Features(self, datetime_obj, latitude, longitude, route, incident_type, direction) ==
  LET cols == Range(self.feature_columns)
      hist == self.historical_data
      month == datetime_obj.month
      hour == datetime_obj.hour
      day_of_week == datetime_obj.weekday
      is_rush_hour_am == 7 <= hour /\ hour < 10
      is_rush_hour_pm == 16 <= hour /\ hour < 19
      temporal ==
        (F.year :> Num(datetime_obj.year))
        @@ (F.month :> Num(month))
        @@ (F.day_of_month :> Num(datetime_obj.day))
        @@ (F.day_of_week :> Num(day_of_week))
        @@ (F.hour :> Num(hour))
        @@ (F.minute :> Num(datetime_obj.minute))
        @@ (F.day_of_year :> Num(datetime_obj.tm_yday))
        @@ (F.week_of_year :> Num(datetime_obj.isoweek))
        @@ (F.quarter :> Num((month - 1) \div 3 + 1))
        @@ (F.hour_sin :> Sin2Pi(hour, 24))
        @@ (F.hour_cos :> Cos2Pi(hour, 24))
        @@ (F.month_sin :> Sin2Pi(month, 12))
        @@ (F.month_cos :> Cos2Pi(month, 12))
        @@ (F.day_of_week_sin :> Sin2Pi(day_of_week, 7))
        @@ (F.day_of_week_cos :> Cos2Pi(day_of_week, 7))
        @@ (F.is_weekend :> Flag(day_of_week >= 5))
        @@ (F.is_rush_hour_am :> Flag(is_rush_hour_am))
        @@ (F.is_rush_hour_pm :> Flag(is_rush_hour_pm))
        @@ (F.is_rush_hour :> Flag(is_rush_hour_am \/ is_rush_hour_pm))
        @@ (F.is_night :> Flag(hour >= 22 \/ hour < 6))
        @@ (F.is_weekday :> Flag(day_of_week < 5))
        @@ (F.season :> Num(season_map(month)))
      dlat == latitude - TORONTO_CENTER_LAT
      dlon == longitude - TORONTO_CENTER_LON
      spatial ==
        (F.latitude :> Ratio(latitude, Degree))
        @@ (F.longitude :> Ratio(longitude, Degree))
        @@ (F.dist_from_center :> Sqrt(dlat * dlat + dlon * dlon, Degree * Degree))
      route_freq == value_counts(hist.rows, "route")
      route_features ==
        (F.route_numeric :> IF str_isdigit(route) THEN Num(str_float(route)) ELSE Num(-1))
        @@ (F.route_is_numeric :> Flag(str_isdigit(route)))
        @@ (F.route_frequency :>
              IF hist.exists
                THEN IF route \in DOMAIN route_freq
                       THEN Num(route_freq[route]) ELSE Median(route_freq)
                ELSE Num(100))
      incident_avg ==
        [t \in Unique(hist.rows, "incident") |->
           DelayMean(hist.rows, {r \in DOMAIN hist.rows : r.incident = t})]
      incident_estimates ==
        (<<"M","e","c","h","a","n","i","c","a","l">> :> 20)
        @@ (<<"C","o","l","l","i","s","i","o","n"," ","-"," ","T","T","C">> :> 30)
        @@ (<<"E","m","e","r","g","e","n","c","y"," ","S","e","r","v","i","c","e","s">> :> 15)
        @@ (<<"O","p","e","r","a","t","i","o","n","s"," ","-"," ","O","p","e","r","a","t","o","r">> :> 10)
        @@ (<<"D","i","v","e","r","s","i","o","n">> :> 25)
        @@ (<<"I","n","v","e","s","t","i","g","a","t","i","o","n">> :> 18)
      incident_avg_delay ==
        F.incident_avg_delay :>
          IF hist.exists
            THEN IF incident_type \in DOMAIN incident_avg
                   THEN incident_avg[incident_type] ELSE MeanOfMeans(incident_avg)
            ELSE IF incident_type \in DOMAIN incident_estimates
                   THEN Num(incident_estimates[incident_type]) ELSE Num(15)
      incident_onehot ==
        [col \in {c \in cols : str_startswith(c, P_incident)} |->
           IncidentValue(self, incident_type, col)]
      direction_onehot ==
        [col \in {c \in cols : str_startswith(c, P_dir)} |->
           Flag(direction = str_replace(col, P_dir, <<>>))]
      day_name == day_names[day_of_week + 1]
      day_onehot ==
        [col \in {c \in cols : str_startswith(c, P_day)} |->
           Flag(day_name = str_replace(col, P_day, <<>>))]
      nearby == {r \in DOMAIN hist.rows :
                   /\ 100 * Abs(r.latitude - latitude) < Degree
                   /\ 100 * Abs(r.longitude - longitude) < Degree}
      location ==
        IF hist.exists
          THEN IF nearby # {}
                 THEN (F.spatial_cell_avg_delay :> DelayMean(hist.rows, nearby))
                      @@ (F.location_frequency :> Num(RowCount(hist.rows, nearby)))
                 ELSE (F.spatial_cell_avg_delay :> DelayMean(hist.rows, DOMAIN hist.rows))
                      @@ (F.location_frequency :> Num(10))
          ELSE (F.spatial_cell_avg_delay :> Num(15))
               @@ (F.location_frequency :> Num(10))
      missing == [col \in cols |-> Num(0)]
  IN  \* a later assignment to a key replaces an earlier one; the fill of lines
      \* 282-284 gives way to every one of them
      location @@ day_onehot @@ direction_onehot @@ incident_onehot
        @@ incident_avg_delay @@ route_features @@ spatial @@ temporal @@ missing

\* the list of line 287 built from a dict features, or the exception of the incident
\* block
ReconstructionWith(self, incident_type, features) ==
  IF \E i \in 1..Len(self.feature_columns) :
        /\ str_startswith(self.feature_columns[i], P_incident)
        /\ IncidentRaises(self, incident_type, self.feature_columns[i])
    THEN [raised |-> "AttributeError", vector |-> <<>>]
    ELSE [raised |-> "",
          vector |-> [i \in 1..Len(self.feature_columns) |->
                        features[self.feature_columns[i]]]]

\* the day name taken from a week that starts on Sunday
engineer_prediction_features_SundayFirst(self, datetime_obj, latitude, longitude, route, incident_type, direction) ==
  LET day_name == day_names[((datetime_obj.weekday + 6) % 7) + 1]
      day_onehot ==
        [col \in {c \in Range(self.feature_columns) : str_startswith(c, P_day)} |->
           Flag(day_name = str_replace(col, P_day, <<>>))]
  IN  ReconstructionWith(self, incident_type,
        day_onehot @@ Features(self, datetime_obj, latitude, longitude, route,
                               incident_type, direction))

\* the AM rush with hour 10 included
engineer_prediction_features_RushInclusive(self, datetime_obj, latitude, longitude, route, incident_type, direction) ==
  LET is_rush_hour_am == 7 <= datetime_obj.hour /\ datetime_obj.hour <= 10
      is_rush_hour_pm == 16 <= datetime_obj.hour /\ datetime_obj.hour < 19
  IN  ReconstructionWith(self, incident_type,
        (F.is_rush_hour_am :> Flag(is_rush_hour_am))
        @@ (F.is_rush_hour :> Flag(is_rush_hour_am \/ is_rush_hour_pm))
        @@ Features(self, datetime_obj, latitude, longitude, route,
                    incident_type, direction))

\* what a call of _engineer_prediction_features gives its caller: the exception it
\* raises, or the list it returns
engineer_prediction_features(self, datetime_obj, latitude, longitude, route, incident_type, direction) ==
  IF \E i \in 1..Len(self.feature_columns) :
        /\ str_startswith(self.feature_columns[i], P_incident)
        /\ IncidentRaises(self, incident_type, self.feature_columns[i])
    THEN [raised |-> "AttributeError", vector |-> <<>>]
    ELSE LET features == Features(self, datetime_obj, latitude, longitude, route,
                                  incident_type, direction)
         IN  [raised |-> "",
              vector |-> [i \in 1..Len(self.feature_columns) |->
                            features[self.feature_columns[i]]]]

(***************************************************************************)
(* Datasets and requests                                                   *)
(***************************************************************************)
\* incident types
Inc ==
  [Mechanical |->
      <<"M","e","c","h","a","n","i","c","a","l">>,
   Vision |->
      <<"V","i","s","i","o","n">>,
   Diversion |->
      <<"D","i","v","e","r","s","i","o","n">>,
   QuantumGlitch |->
      <<"Q","u","a","n","t","u","m","G","l","i","t","c","h">>]
Route_36 == <<"3","6">>
Route_RAD == <<"R","A","D">>
Dir_N == <<"N">>
Dir_EB == <<"E","B">>
Dir_NORTH == <<"N","O","R","T","H">>

\* rows of geocoded_delays.parquet
Row ==
  [Mechanical |->
      [route |-> Route_36, day |-> <<"M","o","n","d","a","y">>, incident |-> Inc.Mechanical, min_delay |-> 10, direction |-> Dir_N, latitude |-> 437325, longitude |-> -792631],
   Vision |->
      [route |-> Route_36, day |-> <<"S","a","t","u","r","d","a","y">>, incident |-> Inc.Vision, min_delay |-> 4, direction |-> Dir_EB, latitude |-> 437340, longitude |-> -794350],
   Diversion |->
      [route |-> Route_RAD, day |-> <<"S","u","n","d","a","y">>, incident |-> Inc.Diversion, min_delay |-> 25, direction |-> NotAString, latitude |-> 436890, longitude |-> -793010]]

RowPool == {Row.Mechanical, Row.Vision, Row.Diversion}

\* how many copies of a row a dataset holds: a type with 1 row among more than 100
\* is rare
RowCopies == {1, 100}

DatasetPool ==
  UNION {[S -> RowCopies] :
           S \in {T \in SUBSET RowPool : T # {} /\ Cardinality(T) <= MaxDataRows}}

\* datetime(2024, 12, 16, 17, 30), a Monday
Monday_1730 ==
  [year |-> 2024, month |-> 12, day |-> 16, hour |-> 17, minute |-> 30,
   weekday |-> 0, tm_yday |-> 351, isoweek |-> 51]
\* datetime(2024, 1, 6, 8, 15), a Saturday
Saturday_0815 ==
  [year |-> 2024, month |-> 1, day |-> 6, hour |-> 8, minute |-> 15,
   weekday |-> 5, tm_yday |-> 6, isoweek |-> 1]

RequestPool ==
  [datetime_obj : {Monday_1730, Saturday_0815},
   position : {[latitude |-> 437325, longitude |-> -792631],
               [latitude |-> 436000, longitude |-> -795000]},
   route : {Route_36, Route_RAD},
   incident_type : {Inc.Mechanical, Inc.Vision, Inc.QuantumGlitch, N_Other},
   direction : {Dir_NORTH, Dir_N}]


(***************************************************************************)
(* The training run and the predictor's life                               *)
(***************************************************************************)
PredInit ==
  /\ p_pc = "start"
  /\ data_file \in [exists : {TRUE}, rows : DatasetPool]
  /\ training_df = <<>>
  /\ model_file = NoModel
  /\ predictor = <<>>
  /\ request = <<>>
  /\ result = <<>>
  /\ GeoIdle
  /\ NormIdle

\* feature_engineering.main: load_data, engineer_features, prepare_training_data,
\* save_model_artifacts
Train ==
  /\ p_pc = "start"
  /\ data_file.exists
  /\ training_df' = data_file.rows
  /\ model_file' = Artifacts(data_file.rows)
  /\ p_pc' = "trained"
  /\ UNCHANGED <<data_file, predictor, request, result, geo_vars, norm_vars>>

\* the model is deployed without geocoded_delays.parquet and .csv
RemoveHistoricalData ==
  /\ p_pc = "trained"
  /\ data_file.exists
  /\ data_file' = NoData
  /\ UNCHANGED <<p_pc, training_df, model_file, predictor, request, result,
                 geo_vars, norm_vars>>

\* DelayPredictor.__init__
LoadPredictor ==
  /\ p_pc \in {"start", "trained"}
  /\ IF model_file.exists
       THEN /\ predictor' = DelayPredictor(model_file, data_file)
            /\ p_pc' = "ready"
       ELSE \* FileNotFoundError
            /\ predictor' = predictor
            /\ p_pc' = "load_failed"
  /\ UNCHANGED <<data_file, training_df, model_file, request, result,
                 geo_vars, norm_vars>>

\* one call of _engineer_prediction_features, as predict_delay makes it
Reconstruct ==
  /\ p_pc \in {"ready", "served"}
  /\ \E r \in RequestPool :
       /\ request' = r
       /\ result' = engineer_prediction_features(
                      predictor, r.datetime_obj, r.position.latitude,
                      r.position.longitude, r.route, r.incident_type, r.direction)
  /\ p_pc' = "served"
  /\ UNCHANGED <<data_file, training_df, model_file, predictor, geo_vars, norm_vars>>

PredNext == Train \/ RemoveHistoricalData \/ LoadPredictor \/ Reconstruct

PredSpec == PredInit /\ [][PredNext]_vars

(***************************************************************************)
(* The predictor started on a model file it finds at MODEL_PATH: the file  *)
(* of the training run, or one whose feature_columns list is not the one   *)
(* the model in it was fitted on                                           *)
(***************************************************************************)
\* the list with its first two columns in the other order
SwapFirstTwo(columns) ==
  <<columns[2], columns[1]>> \o SubSeq(columns, 3, Len(columns))

\* the list without its last column
DropLast(columns) == SubSeq(columns, 1, Len(columns) - 1)

\* joblib.load(MODEL_PATH) for a model fitted on the dataset df
StoredArtifacts(rows) ==
  {Artifacts(rows),
   [Artifacts(rows) EXCEPT !.feature_columns = SwapFirstTwo(@)],
   [Artifacts(rows) EXCEPT !.feature_columns = DropLast(@)]}

\* the datasets of the pool with rows of one kind
ArtifactDatasets == {d \in DatasetPool : DOMAIN d = {Row.Mechanical}}

ArtifactInit ==
  /\ p_pc = "trained"
  /\ data_file \in [exists : {TRUE}, rows : ArtifactDatasets]
  /\ training_df = data_file.rows
  /\ model_file \in StoredArtifacts(data_file.rows)
  /\ predictor = <<>>
  /\ request = <<>>
  /\ result = <<>>
  /\ GeoIdle
  /\ NormIdle

ArtifactNext == RemoveHistoricalData \/ LoadPredictor \/ Reconstruct

ArtifactSpec == ArtifactInit /\ [][ArtifactNext]_vars

\* the persisted schema is the list of columns the model was fitted on
SchemaMatchesModel(self) == self.feature_columns = self.model.feature_name

\* C13: a predictor exists only for a model file whose feature_columns agree with
\* the model's own columns in number and order: on a mismatch loading fails, and
\* no request is served from a misaligned vector
C13_MismatchFailsLoad ==
  p_pc \in {"ready", "served"} => SchemaMatchesModel(predictor)

(***************************************************************************)
(* Properties of the reconstructor (checked under PredSpec)                *)
(***************************************************************************)
\* the call returned a list with one value per schema column
ReturnsVector ==
  /\ result.raised = ""
  /\ Len(result.vector) = Len(predictor.feature_columns)

\* C1: for every schema and request the reconstructed vector has one value per
\* schema column, in schema order: the value computed for that column
C1_OneValuePerSchemaColumn ==
  p_pc = "served" =>
    /\ ReturnsVector
    /\ \A i \in 1..Len(predictor.feature_columns) :
         result.vector[i] =
           Features(predictor, request.datetime_obj, request.position.latitude,
                    request.position.longitude, request.route,
                    request.incident_type, request.direction)[predictor.feature_columns[i]]

\* of the incident_* columns only incident_Other is 1
OnlyOtherIsSet ==
  /\ ReturnsVector
  /\ \A i \in 1..Len(predictor.feature_columns) :
       str_startswith(predictor.feature_columns[i], P_incident) =>
         result.vector[i] = Flag(predictor.feature_columns[i] = F.incident_Other)

HasOtherColumn == F.incident_Other \in Range(predictor.feature_columns)

\* C3: a request whose incident type was never seen at training, with a schema that
\* has incident_Other, gets incident_Other = 1 and every other incident_* column 0,
\* whatever state the predictor was loaded in
C3_UnseenTypeIsOther ==
  p_pc = "served" =>
    (( /\ request.incident_type \notin Unique(training_df, "incident")
       /\ HasOtherColumn )
     => OnlyOtherIsSet)

\* C4: a request whose incident type occurs in the historical data but was grouped
\* into 'Other' at training gets incident_Other = 1 and every other incident_*
\* column 0
C4_RareTypeIsOther ==
  p_pc = "served" =>
    (( /\ predictor.historical_data.exists
      /\ request.incident_type \in Unique(predictor.historical_data.rows, "incident")
      /\ request.incident_type \in rare_incidents(training_df)
      /\ (P_incident \o request.incident_type) \notin Range(predictor.feature_columns)
      /\ HasOtherColumn )
     => OnlyOtherIsSet)

\* the calendar components of a timestamp, and the weekday's cyclical pair
CalendarValue(datetime_obj) ==
  (F.year :> Num(datetime_obj.year))
  @@ (F.month :> Num(datetime_obj.month))
  @@ (F.day_of_month :> Num(datetime_obj.day))
  @@ (F.hour :> Num(datetime_obj.hour))
  @@ (F.day_of_week :> Num(datetime_obj.weekday))
  @@ (F.day_of_year :> Num(datetime_obj.tm_yday))
  @@ (F.week_of_year :> Num(datetime_obj.isoweek))
  @@ (F.quarter :> Num((datetime_obj.month - 1) \div 3 + 1))
  @@ (F.day_of_week_sin :> Sin2Pi(datetime_obj.weekday, 7))
  @@ (F.day_of_week_cos :> Cos2Pi(datetime_obj.weekday, 7))

\* C15: in every vector the reconstruction returns, each schema column that names a
\* calendar component holds the request timestamp's value of it (day_of_week 0 for
\* Monday to 6 for Sunday), and day_of_week_sin / day_of_week_cos are the sine and
\* cosine of that weekday with period 7
C15_CalendarComponents ==
  (p_pc = "served" /\ ReturnsVector) =>
    \A i \in 1..Len(predictor.feature_columns) :
      predictor.feature_columns[i] \in DOMAIN CalendarValue(request.datetime_obj) =>
        result.vector[i] = CalendarValue(request.datetime_obj)[predictor.feature_columns[i]]

(***************************************************************************)
(* The predictor in service: it is loaded on the model file of a training  *)
(* run and on whatever historical data file it finds, which need not be    *)
(* the file the model was trained on, and answers one call at a time       *)
(***************************************************************************)
RECURSIVE Pow10(_)
Pow10(n) == IF n = 0 THEN 1 ELSE 10 * Pow10(n - 1)

\* pd.to_numeric(s, errors='coerce') of a str: the number for digits with an
\* optional fraction part ("36", "36.0"), None (NaN) for a text that is no number;
\* signs, exponents and blanks do not occur in the routes of the model
to_numeric(s) ==
  IF str_isdigit(s) THEN Num(str_float(s))
  ELSE IF \E p \in 1..Len(s) :
             /\ s[p] = "."
             /\ str_isdigit(SubSeq(s, 1, p - 1))
             /\ str_isdigit(SubSeq(s, p + 1, Len(s)))
    THEN LET p == CHOOSE q \in 1..Len(s) : s[q] = "."
             whole == str_float(SubSeq(s, 1, p - 1))
             fraction == str_float(SubSeq(s, p + 1, Len(s)))
             scale == Pow10(Len(s) - p)
         IN  Ratio(whole * scale + fraction, scale)
    ELSE None

\* engineer_features, route features of a row: route_numeric and route_is_numeric
TrainingRouteFeatures(route) ==
  (F.route_numeric :> IF to_numeric(route) = None THEN Num(-1) ELSE to_numeric(route))
  @@ (F.route_is_numeric :> Flag(to_numeric(route) # None))

\* engineer_features, direction features of a row: the dir_* columns of the schema
TrainingDirectionFeatures(columns, direction) ==
  [col \in {c \in Range(columns) : str_startswith(c, P_dir)} |->
     Flag(col = P_dir \o direction_clean(direction))]

\* what self.model.predict(X)[0] may give: the regressor is not bound to a sign
ModelOutputs == {-3, 12}

\* predict_delay for the request r when the model answers prediction: the exception
\* raised, or the vector handed to the model and the delay returned
predict_delay(self, r, prediction) ==
  LET features == engineer_prediction_features(
                    self, r.datetime_obj, r.position.latitude, r.position.longitude,
                    r.route, r.incident_type, r.direction)
  IN  IF features.raised # ""
        THEN [raised |-> features.raised, vector |-> <<>>, returns |-> None]
        ELSE [raised |-> "", vector |-> features.vector, returns |-> Max(0, prediction)]

\* the default incident types of predict_all_incident_scenarios
DefaultIncidentTypes ==
  <<<<"M","e","c","h","a","n","i","c","a","l">>,
    <<"C","o","l","l","i","s","i","o","n"," ","-"," ","T","T","C">>,
    <<"E","m","e","r","g","e","n","c","y"," ","S","e","r","v","i","c","e","s">>,
    <<"O","p","e","r","a","t","i","o","n","s"," ","-"," ","O","p","e","r","a","t","o","r">>,
    <<"D","i","v","e","r","s","i","o","n">>,
    <<"I","n","v","e","s","t","i","g","a","t","i","o","n">>,
    <<"S","e","c","u","r","i","t","y">>,
    <<"C","l","e","a","n","i","n","g"," ","-"," ","U","n","s","a","n","i","t","a","r","y">>>>

RECURSIVE Predicted(_, _, _, _)
\* the loop of predict_all_incident_scenarios: the incident types whose predict_delay
\* did not raise, in order
Predicted(self, r, prediction, incident_types) ==
  IF incident_types = <<>> THEN <<>>
  ELSE LET incident == Head(incident_types)
           rest == Predicted(self, r, prediction, Tail(incident_types))
       IN  IF predict_delay(self, [r EXCEPT !.incident_type = incident], prediction).raised = ""
             THEN <<incident>> \o rest
             ELSE rest

\* predict_all_incident_scenarios: the incident types of the rows of the DataFrame
\* returned; sort_values on the frame of an empty list raises KeyError
predict_all_incident_scenarios(self, r, prediction) ==
  LET incident_types ==
        IF ~self.historical_data.exists \/ "incident_types" \notin DOMAIN self
          THEN DefaultIncidentTypes
          ELSE self.incident_types
      results == Predicted(self, r, prediction, incident_types)
  IN  IF results = <<>>
        THEN [raised |-> "KeyError", vector |-> <<>>, returns |-> None]
        ELSE [raised |-> "", vector |-> <<>>, returns |-> results]

\* every hour of every day of the week of Monday 2024-12-16
Timestamps ==
  {[year |-> 2024, month |-> 12, day |-> 16 + weekday, hour |-> hour, minute |-> 0,
    weekday |-> weekday, tm_yday |-> 351 + weekday, isoweek |-> 51] :
     <<weekday, hour>> \in (0..6) \X (0..23)}

Route_36_0 == <<"3","6",".","0">>

\* the defaults of predict_delay at the first position of the request pool
DefaultRequest ==
  [datetime_obj |-> Monday_1730,
   position |-> [latitude |-> 437325, longitude |-> -792631],
   route |-> Route_36,
   incident_type |-> Inc.Mechanical,
   direction |-> Dir_NORTH]

\* requests that differ from the default one in one argument
ServiceRequests ==
  {[DefaultRequest EXCEPT !.datetime_obj = t] : t \in Timestamps}
  \cup {[DefaultRequest EXCEPT !.route = x] : x \in {Route_RAD, Route_36_0}}
  \cup {[DefaultRequest EXCEPT !.incident_type = x] :
          x \in {Inc.Vision, Inc.QuantumGlitch, N_Other}}
  \cup {[DefaultRequest EXCEPT !.direction = x] : x \in {Dir_N, Dir_EB}}

\* the historical data file found at start: none, the training data, or another file
HistoricalFiles(rows) ==
  {NoData,
   [exists |-> TRUE, rows |-> rows],
   [exists |-> TRUE, rows |-> (Row.Mechanical :> 1)]}

ServiceInit ==
  /\ p_pc = "trained"
  /\ training_df \in DatasetPool
  /\ model_file = Artifacts(training_df)
  /\ data_file \in HistoricalFiles(training_df)
  /\ predictor = <<>>
  /\ request = <<>>
  /\ result = <<>>
  /\ GeoIdle
  /\ NormIdle

\* a call of predict_delay
PredictDelay ==
  /\ p_pc = "ready"
  /\ \E r \in ServiceRequests, prediction \in ModelOutputs :
       /\ request' = [call |-> "predict_delay"] @@ r
       /\ result' = predict_delay(predictor, r, prediction)
  /\ p_pc' = "served"
  /\ UNCHANGED <<data_file, training_df, model_file, predictor, geo_vars, norm_vars>>

\* a call of predict_all_incident_scenarios
PredictAllIncidentScenarios ==
  /\ p_pc = "ready"
  /\ \E prediction \in ModelOutputs :
       /\ request' = [call |-> "predict_all_incident_scenarios"] @@ DefaultRequest
       /\ result' = predict_all_incident_scenarios(predictor, DefaultRequest, prediction)
  /\ p_pc' = "served"
  /\ UNCHANGED <<data_file, training_df, model_file, predictor, geo_vars, norm_vars>>

\* the caller has its answer; the predictor waits for the next call
Return ==
  /\ p_pc = "served"
  /\ p_pc' = "ready"
  /\ request' = <<>>
  /\ result' = <<>>
  /\ UNCHANGED <<data_file, training_df, model_file, predictor, geo_vars, norm_vars>>

ServiceNext == LoadPredictor \/ PredictDelay \/ PredictAllIncidentScenarios \/ Return

ServiceSpec == ServiceInit /\ [][ServiceNext]_vars

(***************************************************************************)
(* Properties of the predictor in service (checked under ServiceSpec)      *)
(***************************************************************************)
\* predict_delay has built the vector for the request
Reconstructed ==
  /\ p_pc = "served"
  /\ request.call = "predict_delay"
  /\ result.raised = ""
  /\ Len(result.vector) = Len(predictor.feature_columns)

\* the value of the schema column col in the vector
ValueOf(col) ==
  result.vector[CHOOSE i \in 1..Len(predictor.feature_columns) :
                  predictor.feature_columns[i] = col]

\* the name of the day of a timestamp of the week of Monday 2024-12-16
DayNameOf(datetime_obj) ==
  IF datetime_obj.day = 16 THEN <<"M","o","n","d","a","y">>
  ELSE IF datetime_obj.day = 17 THEN <<"T","u","e","s","d","a","y">>
  ELSE IF datetime_obj.day = 18 THEN <<"W","e","d","n","e","s","d","a","y">>
  ELSE IF datetime_obj.day = 19 THEN <<"T","h","u","r","s","d","a","y">>
  ELSE IF datetime_obj.day = 20 THEN <<"F","r","i","d","a","y">>
  ELSE IF datetime_obj.day = 21 THEN <<"S","a","t","u","r","d","a","y">>
  ELSE <<"S","u","n","d","a","y">>

\* the day-name columns of the schema
DayNameColumns ==
  {c \in Range(predictor.feature_columns) :
     \E d \in 16..22 : c = P_day \o DayNameOf([day |-> d])}

\* C22: in every vector built, each day-name column of the schema (day_Monday ..
\* day_Sunday) is 1 if it is the column of the request timestamp's weekday and 0
\* otherwise, for every day of the week and every hour
C22_DayNameOneHot ==
  Reconstructed =>
    \A col \in DayNameColumns :
      ValueOf(col) = Flag(col = P_day \o DayNameOf(request.datetime_obj))

\* a Saturday request on a schema with day_Monday and day_Saturday: day_Saturday is
\* 1 and day_Monday is 0
C22_Witness ==
  /\ Reconstructed
  /\ request.datetime_obj.weekday = 5
  /\ DayNameColumns = {P_day \o Row.Mechanical.day, P_day \o Row.Vision.day}
  /\ ValueOf(P_day \o Row.Vision.day) = Num(1)
  /\ ValueOf(P_day \o Row.Mechanical.day) = Num(0)

\* the flag column col of the vector is set
IsSet(col) == ValueOf(col) = Num(1)

\* a flag column holds 0 or 1
IsFlag(col) == ValueOf(col) \in {Num(0), Num(1)}

\* C23: for every hour 0..23 and weekday 0..6 of the request timestamp:
\* is_rush_hour_am iff 7 <= hour < 10, is_rush_hour_pm iff 16 <= hour < 19,
\* is_rush_hour iff one of the two, is_night iff hour >= 22 or hour < 6, is_weekend
\* iff weekday >= 5, is_weekday = 1 - is_weekend; no hour is both night and rush,
\* and the two rush flags are never both set
C23_TemporalFlags ==
  Reconstructed =>
    LET hour == request.datetime_obj.hour
        weekday == request.datetime_obj.weekday
    IN  /\ \A col \in {F.is_rush_hour_am, F.is_rush_hour_pm, F.is_rush_hour, F.is_night,
                       F.is_weekend, F.is_weekday} : IsFlag(col)
        /\ IsSet(F.is_rush_hour_am) <=> (7 <= hour /\ hour < 10)
        /\ IsSet(F.is_rush_hour_pm) <=> (16 <= hour /\ hour < 19)
        /\ IsSet(F.is_rush_hour) <=> (IsSet(F.is_rush_hour_am) \/ IsSet(F.is_rush_hour_pm))
        /\ IsSet(F.is_night) <=> (hour >= 22 \/ hour < 6)
        /\ IsSet(F.is_weekend) <=> weekday >= 5
        /\ ValueOf(F.is_weekday) = Num(1 - ValueOf(F.is_weekend).n)
        /\ ~(IsSet(F.is_night) /\ IsSet(F.is_rush_hour))
        /\ ~(IsSet(F.is_rush_hour_am) /\ IsSet(F.is_rush_hour_pm))

\* Sunday 10:00, the first hour after the AM rush: a weekend hour that is neither
\* rush nor night
C23_Witness ==
  /\ Reconstructed
  /\ request.datetime_obj.hour = 10
  /\ request.datetime_obj.weekday = 6
  /\ IsSet(F.is_weekend)
  /\ ~IsSet(F.is_weekday)
  /\ ~IsSet(F.is_rush_hour_am)
  /\ ~IsSet(F.is_rush_hour)
  /\ ~IsSet(F.is_night)

\* C24: in every vector built, route_numeric and route_is_numeric are what training
\* computes for the same route identifier: the number and 1 if the identifier
\* parses as a number, -1 and 0 otherwise
C24_RouteClassification ==
  Reconstructed =>
    /\ ValueOf(F.route_numeric) = TrainingRouteFeatures(request.route)[F.route_numeric]
    /\ ValueOf(F.route_is_numeric) = TrainingRouteFeatures(request.route)[F.route_is_numeric]

\* the incident_* columns of the schema that are 1 in the vector
IncidentColumnsSet ==
  {c \in Range(predictor.feature_columns) : str_startswith(c, P_incident) /\ IsSet(c)}

\* C27: in every vector built at most one incident_* column is 1, whatever the
\* request's incident type, the schema's incident columns and the incident types of
\* the historical data the predictor has loaded
C27_IncidentOneHot ==
  Reconstructed => Cardinality(IncidentColumnsSet) <= 1

\* the predictor was loaded without a historical data file and has answered a call
PredictionsOnly ==
  /\ p_pc = "served"
  /\ ~predictor.historical_data.exists

\* C28: in predictions-only mode predict_delay returns a delay of at least 0 for
\* every request, and predict_all_incident_scenarios returns one prediction for each
\* of the eight default incident types, for every schema
C28_PredictionsOnlyUsable ==
  PredictionsOnly =>
    /\ result.raised = ""
    /\ request.call = "predict_delay" =>
         result.returns >= 0
    /\ request.call = "predict_all_incident_scenarios" =>
         result.returns = DefaultIncidentTypes

\* the request replays a row of the training data with the row's raw direction
ReplaysTrainingDirection ==
  \E row \in DOMAIN training_df : row.direction = request.direction

\* C29: when a row of the training data is replayed as a request with its raw
\* direction value (abbreviations such as 'N' and 'EB' included), the dir_* columns
\* of the vector equal the dir_* columns training produced for that row
C29_DirectionParity ==
  (Reconstructed /\ ReplaysTrainingDirection) =>
    \A col \in DOMAIN TrainingDirectionFeatures(predictor.feature_columns, request.direction) :
      ValueOf(col) = TrainingDirectionFeatures(predictor.feature_columns, request.direction)[col]

(***************************************************************************)
(* The API server of machineLearning/api.py: the module-level predictor is *)
(* None until startup_event has loaded one; each handler answers one       *)
(* request that the framework has dispatched to it. A response is its      *)
(* status code and whether the handler touched the predictor object.       *)
(***************************************************************************)
\* raise HTTPException(status_code=...) before any use of the predictor
HTTPException(status_code) == [status |-> status_code, uses_predictor |-> FALSE]

\* a response, or an HTTPException, after the handler has read the predictor
Answer(status_code) == [status |-> status_code, uses_predictor |-> TRUE]

\* the arguments of the prediction endpoints
ApiRequests ==
  {[DefaultRequest EXCEPT !.incident_type = x] : x \in {Inc.Mechanical, Inc.Vision, N_Other}}

\* the model file at MODEL_PATH is absent or is the file of the training run; the
\* historical data file is absent, the training data or another file
ApiInit ==
  /\ p_pc = "starting"
  /\ training_df \in DatasetPool
  /\ model_file \in {NoModel, Artifacts(training_df)}
  /\ data_file \in HistoricalFiles(training_df)
  /\ predictor = None
  /\ request = <<>>
  /\ result = <<>>
  /\ GeoIdle
  /\ NormIdle

\* startup_event: predictor = DelayPredictor(); the exception of a failed load is
\* printed and dropped, and the global keeps its None
StartupEvent ==
  /\ p_pc = "starting"
  /\ predictor' = IF model_file.exists
                    THEN DelayPredictor(model_file, data_file)
                    ELSE predictor
  /\ p_pc' = "up"
  /\ UNCHANGED <<data_file, training_df, model_file, request, result, geo_vars, norm_vars>>

\* what every handler leaves alone: no handler assigns the global predictor
HandlerFrame ==
  /\ p_pc' = "up"
  /\ UNCHANGED <<data_file, training_df, model_file, predictor, geo_vars, norm_vars>>

\* GET /
Root ==
  /\ p_pc = "up"
  /\ request' = [endpoint |-> "/"]
  /\ result' = [status |-> 200, uses_predictor |-> FALSE]
  /\ HandlerFrame

\* GET /health
HealthCheck ==
  /\ p_pc = "up"
  /\ request' = [endpoint |-> "/health"]
  /\ result' = IF predictor = None THEN HTTPException(503) ELSE Answer(200)
  /\ HandlerFrame

\* GET /api/time-range
GetTimeRange ==
  /\ p_pc = "up"
  /\ request' = [endpoint |-> "/api/time-range"]
  /\ result' = IF predictor = None THEN HTTPException(503)
               ELSE IF ~predictor.historical_data.exists THEN Answer(404)
               ELSE Answer(200)
  /\ HandlerFrame

\* GET /api/historical; parses: pd.to_datetime accepts start and end
GetHistoricalDelays ==
  /\ p_pc = "up"
  /\ \E parses \in BOOLEAN :
       /\ request' = [endpoint |-> "/api/historical", parses |-> parses]
       /\ result' = IF predictor = None THEN HTTPException(503)
                    ELSE IF ~predictor.historical_data.exists \/ ~parses THEN Answer(400)
                    ELSE Answer(200)
  /\ HandlerFrame

\* GET /api/historical/heatmap
GetHeatmapGrid ==
  /\ p_pc = "up"
  /\ \E parses \in BOOLEAN :
       /\ request' = [endpoint |-> "/api/historical/heatmap", parses |-> parses]
       /\ result' = IF predictor = None THEN HTTPException(503)
                    ELSE IF ~predictor.historical_data.exists \/ ~parses THEN Answer(400)
                    ELSE Answer(200)
  /\ HandlerFrame

\* GET /api/predict; parses: datetime.fromisoformat accepts the timestamp
PredictScenarios ==
  /\ p_pc = "up"
  /\ \E r \in ApiRequests, parses \in BOOLEAN, prediction \in ModelOutputs :
       /\ request' = [endpoint |-> "/api/predict", parses |-> parses] @@ r
       /\ result' =
            IF predictor = None THEN HTTPException(503)
            ELSE IF ~parses THEN Answer(400)
            ELSE IF predict_all_incident_scenarios(predictor, r, prediction).raised # ""
              THEN Answer(400)
            ELSE Answer(200)
  /\ HandlerFrame

\* GET /api/predict/single
PredictSingleScenario ==
  /\ p_pc = "up"
  /\ \E r \in ApiRequests, parses \in BOOLEAN, prediction \in ModelOutputs :
       /\ request' = [endpoint |-> "/api/predict/single", parses |-> parses] @@ r
       /\ result' =
            IF predictor = None THEN HTTPException(503)
            ELSE IF ~parses THEN Answer(400)
            ELSE IF predict_delay(predictor, r, prediction).raised # "" THEN Answer(400)
            ELSE Answer(200)
  /\ HandlerFrame

\* the handler of /api/incident-types with its two tests in the other order:
\* hasattr(None, 'incident_types') is False
GetIncidentTypes_AttributeFirst ==
  /\ p_pc = "up"
  /\ request' = [endpoint |-> "/api/incident-types"]
  /\ result' = IF "incident_types" \notin DOMAIN predictor THEN Answer(200)
               ELSE IF predictor = None THEN HTTPException(503)
               ELSE Answer(200)
  /\ HandlerFrame

\* GET /api/incident-types: without the attribute the list returned is empty
GetIncidentTypes ==
  /\ p_pc = "up"
  /\ request' = [endpoint |-> "/api/incident-types"]
  /\ result' = IF predictor = None THEN HTTPException(503)
               ELSE IF "incident_types" \notin DOMAIN predictor THEN Answer(200)
               ELSE Answer(200)
  /\ HandlerFrame

\* GET /api/stations/search
SearchStations ==
  /\ p_pc = "up"
  /\ request' = [endpoint |-> "/api/stations/search"]
  /\ result' = IF predictor = None THEN HTTPException(503)
               ELSE IF ~predictor.historical_data.exists THEN Answer(404)
               ELSE Answer(200)
  /\ HandlerFrame

\* GET /api/stations/{location}/predict; known: the historical data has rows at
\* the location
GetStationCurrentPrediction ==
  /\ p_pc = "up"
  /\ \E known \in BOOLEAN, prediction \in ModelOutputs :
       /\ request' = [endpoint |-> "/api/stations/{location}/predict", known |-> known]
       /\ result' =
            IF predictor = None THEN HTTPException(503)
            ELSE IF ~predictor.historical_data.exists THEN Answer(404)
            ELSE IF ~known THEN Answer(404)
            ELSE IF predict_all_incident_scenarios(predictor, DefaultRequest, prediction).raised # ""
              THEN Answer(400)
            ELSE Answer(200)
  /\ HandlerFrame

ApiNext ==
  \/ StartupEvent
  \/ Root
  \/ HealthCheck
  \/ GetTimeRange
  \/ GetHistoricalDelays
  \/ GetHeatmapGrid
  \/ PredictScenarios
  \/ PredictSingleScenario
  \/ GetIncidentTypes
  \/ SearchStations
  \/ GetStationCurrentPrediction

ApiSpec == ApiInit /\ [][ApiNext]_vars

(***************************************************************************)
(* Properties of the API server (checked under ApiSpec)                    *)
(***************************************************************************)
\* the server is up and the load at startup has failed
UpWithoutPredictor ==
  /\ p_pc = "up"
  /\ predictor = None

\* C30: a failed load at startup leaves the server up with no predictor; from then
\* on every step keeps the server up and the predictor absent, and every request
\* to an endpoint other than / is answered 503 without a use of the predictor
C30_NoPredictorMeans503 ==
  [][ /\ (p_pc = "starting" /\ ~model_file.exists) => UpWithoutPredictor'
      /\ UpWithoutPredictor =>
           /\ UpWithoutPredictor'
           /\ request'.endpoint # "/" =>
                (result'.status = 503 /\ ~result'.uses_predictor) ]_vars

\* after a failed load, /api/predict was answered 503
C30_Witness ==
  /\ UpWithoutPredictor
  /\ ~model_file.exists
  /\ request # <<>>
  /\ request.endpoint = "/api/predict"
  /\ result = HTTPException(503)

=============================================================================
